---------------------------- MODULE Spec2Model ----------------------------
(***************************************************************************)
(* Model of tools/BD-09_to_WGS84.cpp: the BD-09 -> GCJ-02 -> WGS-84        *)
(* coordinate converter and its stdin/stdout driver.                       *)
(*                                                                         *)
(* NUMBERS.  The program computes in IEEE doubles.  The model computes in  *)
(* binary fixed point.  A coordinate (a "Num") is a pair <<hi, lo>> that   *)
(* stands for hi + lo / 2^30 degrees, hi an integer and 0 <= lo < 2^30, so *)
(* that the 30 halvings of the one-degree search box of gcj02_to_wgs84 are *)
(* exact, as they are in doubles.  Intermediate quantities are single      *)
(* integers in a stated Q format (Qn: the integer v stands for v / 2^n).   *)
(* Every product is formed without exceeding 31 bits.                      *)
(***************************************************************************)
EXTENDS Integers, Sequences, FiniteSets, TLC

Q == 2^30

(***************************************************************************)
(* Two-limb fixed-point numbers.                                           *)
(***************************************************************************)
Norm(h, l) == <<h + (l \div Q), l % Q>>

NAdd(a, b) == Norm(a[1] + b[1], a[2] + b[2])

NSub(a, b) == Norm(a[1] - b[1], a[2] - b[2])

NLt(a, b) == a[1] < b[1] \/ (a[1] = b[1] /\ a[2] < b[2])

NGt(a, b) == NLt(b, a)

NNeg(a) == Norm(-a[1], -a[2])

\* fabs
NAbs(a) == IF a[1] < 0 THEN NNeg(a) ELSE a

\* x / 2.0
NHalf(a) == <<a[1] \div 2, (a[2] + ((a[1] % 2) * Q)) \div 2>>

\* a + d / 2^30, d a single integer
NShift(a, d) == Norm(a[1], a[2] + d)

Zero == <<0, 0>>

(***************************************************************************)
(* Decimal literals and decimal text.  FracQ is the Q30 value of the       *)
(* fraction 0.d1d2...dk, by Horner's rule from the last digit; each        *)
(* division rounds down, so the result is within k / 2^30 of the decimal.  *)
(***************************************************************************)
RECURSIVE FracQ(_)
FracQ(digs) ==
    IF digs = <<>> THEN 0
    ELSE LET d == Head(digs)
             acc == FracQ(Tail(digs))
         IN  (d * (Q \div 10)) + (((d * (Q % 10)) + acc) \div 10)

Dec(i, digs) == <<i, FracQ(digs)>>

(***************************************************************************)
(* Products and quotients of 31-bit quantities.                            *)
(***************************************************************************)
B15 == 2^15

Abs(a) == IF a < 0 THEN -a ELSE a

Sgn(a) == IF a < 0 THEN -1 ELSE 1

\* floor(a * b / 2^s) for 0 <= a, b <= 2^30 and 15 <= s <= 30, exactly
MulShift(a, b, s) ==
    LET ah == a \div B15
        al == a % B15
        bh == b \div B15
        bl == b % B15
    IN  ((ah * bh) * 2^(30 - s))
          + (((ah * bl + al * bh) + ((al * bl) \div B15)) \div 2^(s - 15))

\* signed product, rounded towards zero
SMul(a, b, s) == Sgn(a) * Sgn(b) * MulShift(Abs(a), Abs(b), s)

\* floor(a * b / c) for 0 <= a < 2^31 and 0 <= b < c <= 2^29, exactly: long
\* division over the bits of a, from bit k down, r the running remainder
RECURSIVE MulDivBits(_, _, _, _, _)
MulDivBits(a, b, c, k, r) ==
    IF k < 0 THEN 0
    ELSE LET r2 == (2 * r) + (((a \div 2^k) % 2) * b)
         IN  ((r2 \div c) * 2^k) + MulDivBits(a, b, c, k - 1, r2 % c)

MulDiv(a, b, c) == MulDivBits(a, b, c, 30, 0)

\* floor(2 v / 3): "* 2.0 / 3.0"
TwoThirds(v) == ((v \div 3) * 2) + (((v % 3) * 2) \div 3)

(***************************************************************************)
(* ::sqrt.  SqrtQ(v, s) is the largest t <= 2^30 with t * t / 2^s <= v:    *)
(* the square root of a Qn number v as a Q((n + s) / 2) number.            *)
(***************************************************************************)
RECURSIVE SqrtBits(_, _, _, _)
SqrtBits(v, s, k, acc) ==
    IF k < 0 THEN acc
    ELSE LET t == acc + 2^k
         IN  IF t <= Q /\ MulShift(t, t, s) <= v
             THEN SqrtBits(v, s, k - 1, t)
             ELSE SqrtBits(v, s, k - 1, acc)

SqrtQ(v, s) == SqrtBits(v, s, 29, 0)

(***************************************************************************)
(* The program's constants.                                                *)
(***************************************************************************)
PI == Dec(3, <<1,4,1,5,9,2,6,5,3,5,8,9,7,9,3,2,3,8,4,6>>)

A == 6378245

EE == Dec(0, <<0,0,6,6,9,3,4,2,1,6,2,2,9,6,5,9,4,3,2,3>>)

\* PI as a Q28 integer, EE as a Q30 integer, 1.0 as a Q29 integer
PI28 == (PI[1] * 2^28) + (PI[2] \div 4)

EE30 == EE[2]

One == 2^29

(***************************************************************************)
(* ::sin and ::cos.  An angle is held as a fraction of a turn, a Q30       *)
(* integer t in [0, 2^30) standing for 2 PI t / 2^30 radians: sin(k x PI)  *)
(* depends on x only through the fractional part of k x / 2.  The turn is  *)
(* reduced to the first octant and the Taylor series is summed there, in   *)
(* Q29, to the term of order 11 (sine) or 10 (cosine): error below 2e-9.   *)
(***************************************************************************)
\* radians, Q29, of r / 2^30 turns, r <= 2^27
Theta(r) == MulShift(r, PI28, 28)

\* the series in Horner form, z the square of th
SinSeries(th, z) ==
    LET p5 == One - (z \div 110)
        p4 == One - (MulShift(z, p5, 29) \div 72)
        p3 == One - (MulShift(z, p4, 29) \div 42)
        p2 == One - (MulShift(z, p3, 29) \div 20)
        p1 == One - (MulShift(z, p2, 29) \div 6)
    IN  MulShift(th, p1, 29)

CosSeries(z) ==
    LET p5 == One - (z \div 90)
        p4 == One - (MulShift(z, p5, 29) \div 56)
        p3 == One - (MulShift(z, p4, 29) \div 30)
        p2 == One - (MulShift(z, p3, 29) \div 12)
    IN  One - (MulShift(z, p2, 29) \div 2)

TaylorSin(th) == SinSeries(th, MulShift(th, th, 29))

TaylorCos(th) == CosSeries(MulShift(th, th, 29))

\* sine of r / 2^30 turns, 0 <= r <= 2^28 (the first quadrant)
SinQuadrant(r) ==
    IF r <= Q \div 8 THEN TaylorSin(Theta(r)) ELSE TaylorCos(Theta(Q \div 4 - r))

\* sin(2 PI t / 2^30) as a Q29 integer: quadrants 1 and 3 mirror the angle,
\* quadrants 2 and 3 change the sign
sin(t) ==
    LET q == t \div (Q \div 4)
        r == t % (Q \div 4)
    IN  (IF q < 2 THEN 1 ELSE -1)
          * SinQuadrant(IF q % 2 = 0 THEN r ELSE (Q \div 4) - r)

cos(t) == sin((t + Q \div 4) % Q)

\* the turn of the angle n * PI / (k / 2) radians, i.e. frac(n / k), n a Num
TurnDiv(n, k) ==
    LET h == n[1] % k
    IN  (h * (Q \div k)) + (((h * (Q % k)) + n[2]) \div k)

\* the turn of the angle 6.0 * n * PI radians, i.e. frac(3 n)
TurnMul3(n) == (((2 * n[2]) % Q) + n[2]) % Q

\* the turn of the angle 2.0 * n * PI radians, i.e. frac(n)
TurnMul1(n) == n[2]

(***************************************************************************)
(* transformLat, transformLon: metres, as Q20 integers.  x and y arrive as *)
(* Nums; the polynomial part uses them as Q24 integers, the sines as Q22.  *)
(***************************************************************************)
ToQ24(n) == (n[1] * 2^24) + (n[2] \div 64)

Sin22(t) == sin(t) \div 128

\* 0.2 * sqrt(fabs(x)) and 0.1 * sqrt(fabs(x)), Q20, of x in Q24
SqrtAbsOver(X, k) == (SqrtQ(Abs(X), 28) \div k) \div 64

transformLat(x, y) ==
    LET X == ToQ24(x)
        Y == ToQ24(y)
        ret0 == (-100) * 2^20 + (X \div 8) + 3 * (Y \div 16)
                  + SMul(Y \div 5, Y, 28) + SMul(X \div 10, Y, 28)
                  + SqrtAbsOver(X, 5)
        ret1 == TwoThirds(20 * Sin22(TurnMul3(x)) + 20 * Sin22(TurnMul1(x))) \div 4
        ret2 == TwoThirds(20 * Sin22(TurnDiv(y, 2)) + 40 * Sin22(TurnDiv(y, 6))) \div 4
        ret3 == TwoThirds(160 * Sin22(TurnDiv(y, 24)) + 320 * Sin22(TurnDiv(y, 60))) \div 4
    IN  ret0 + ret1 + ret2 + ret3

transformLon(x, y) ==
    LET X == ToQ24(x)
        Y == ToQ24(y)
        ret0 == 300 * 2^20 + (X \div 16) + (Y \div 8)
                  + SMul(X \div 10, X, 28) + SMul(X \div 10, Y, 28)
                  + SqrtAbsOver(X, 10)
        ret1 == TwoThirds(20 * Sin22(TurnMul3(x)) + 20 * Sin22(TurnMul1(x))) \div 4
        ret2 == TwoThirds(20 * Sin22(TurnDiv(x, 2)) + 40 * Sin22(TurnDiv(x, 6))) \div 4
        ret3 == TwoThirds(150 * Sin22(TurnDiv(x, 24)) + 300 * Sin22(TurnDiv(x, 60))) \div 4
    IN  ret0 + ret1 + ret2 + ret3

(***************************************************************************)
(* outOfChina                                                              *)
(***************************************************************************)
\* the four literals of line 17
BoxMinLng == Dec(72, <<0,0,4>>)

BoxMaxLng == Dec(137, <<8,3,4,7>>)

BoxMinLat == Dec(0, <<8,2,9,3>>)

BoxMaxLat == Dec(55, <<8,2,7,1>>)

\* variant: the edges of the box count as outside
outOfChina_inclusive(lng, lat) ==
    \/ ~NGt(lng, BoxMinLng)
    \/ ~NLt(lng, BoxMaxLng)
    \/ ~NGt(lat, BoxMinLat)
    \/ ~NLt(lat, BoxMaxLat)

outOfChina(lng, lat) ==
    \/ NLt(lng, BoxMinLng)
    \/ NGt(lng, BoxMaxLng)
    \/ NLt(lat, BoxMinLat)
    \/ NGt(lat, BoxMaxLat)

(***************************************************************************)
(* wgs84_to_gcj02.  A point is a pair <<lng, lat>> of Nums.  dLat and dLng *)
(* leave the scaling step as Q30 degrees.                                  *)
(***************************************************************************)
\* signed a * b / c, rounded towards zero
SMulDiv(a, b, c) == Sgn(a) * MulDiv(Abs(a), b, c)

\* line 50: lat / 180.0 * PI, in turns
RadLat(lat) == TurnDiv(lat, 360)

\* variant: the sign of line 52 slipped, EE * magic * magic - 1
Magic_negated(s) == (MulShift(MulShift(EE30, s, 29), s, 29) \div 2) - One

\* line 52: 1 - EE * magic * magic, Q29, of magic = sin(radLat)
Magic(s) == One - (MulShift(MulShift(EE30, s, 29), s, 29) \div 2)

\* line 53, Q29
SqrtMagic(magic) == SqrtQ(magic, 29)

\* line 54, the divisor: (A * (1 - EE)) / (magic * sqrtMagic) * PI, Q4
DenLat(magic, sqrtMagic) ==
    MulShift(MulDiv(One, MulShift(A * 16, Q - EE30, 30),
                    MulShift(magic, sqrtMagic, 29)), PI28, 28)

\* line 55, the divisor: A / sqrtMagic * cos(radLat) * PI, Q4
DenLng(sqrtMagic, cosRadLat) ==
    MulShift(MulShift(MulDiv(One, A * 16, sqrtMagic), cosRadLat, 29), PI28, 28)

wgs84_to_gcj02(lng, lat) ==
    IF outOfChina(lng, lat) THEN <<lng, lat>>
    ELSE
    LET x == NSub(lng, <<105, 0>>)
        y == NSub(lat, <<35, 0>>)
        radLat == RadLat(lat)
        magic == Magic(sin(radLat))
        sqrtMagic == SqrtMagic(magic)
        denLat == DenLat(magic, sqrtMagic)
        denLng == DenLng(sqrtMagic, cos(radLat))
        dLat == SMulDiv(transformLat(x, y), 180 * 2^14, denLat)
        dLng == SMulDiv(transformLon(x, y), 180 * 2^14, denLng)
        mgLat == NShift(lat, dLat)
        mgLng == NShift(lng, dLng)
    IN  <<mgLng, mgLat>>

(***************************************************************************)
(* gcj02_to_wgs84.  The call is a frame: the target (lng, lat), the locals *)
(* of the function, the loop counter i, and, once the function has         *)
(* returned, done = TRUE and the returned pair in ret.  calls counts the   *)
(* evaluations of wgs84_to_gcj02 the call has made.                        *)
(***************************************************************************)
MaxIter == 30

\* fabs(d) < threshold, threshold = 1e-7: d is k / 2^30 with k >= 0 an
\* integer, and k / 2^30 < 1 / 10^7 iff k * 10^7 < 2^30 (the middle conjunct
\* keeps the product within 31 bits)
BelowThreshold(d) ==
    LET a == NAbs(d)
    IN  a[1] = 0 /\ a[2] <= Q \div 10^7 /\ a[2] * 10^7 < Q

\* variant: no guard, the search is run for every point
gcj02_enter_unguarded(lng, lat) ==
    [lng |-> lng, lat |-> lat,
     minLat |-> NSub(lat, Dec(0, <<5>>)), maxLat |-> NAdd(lat, Dec(0, <<5>>)),
     minLng |-> NSub(lng, Dec(0, <<5>>)), maxLng |-> NAdd(lng, Dec(0, <<5>>)),
     midLat |-> Zero, midLng |-> Zero,
     i |-> 0, calls |-> 0, done |-> FALSE, ret |-> <<Zero, Zero>>]

\* variant: the search box is 0.001 degree to each side of the target
gcj02_enter_narrow(lng, lat) ==
    IF outOfChina(lng, lat)
    THEN [lng |-> lng, lat |-> lat,
          minLat |-> Zero, maxLat |-> Zero, minLng |-> Zero, maxLng |-> Zero,
          midLat |-> Zero, midLng |-> Zero,
          i |-> 0, calls |-> 0, done |-> TRUE, ret |-> <<lng, lat>>]
    ELSE [lng |-> lng, lat |-> lat,
          minLat |-> NSub(lat, Dec(0, <<0,0,1>>)),
          maxLat |-> NAdd(lat, Dec(0, <<0,0,1>>)),
          minLng |-> NSub(lng, Dec(0, <<0,0,1>>)),
          maxLng |-> NAdd(lng, Dec(0, <<0,0,1>>)),
          midLat |-> Zero, midLng |-> Zero,
          i |-> 0, calls |-> 0, done |-> FALSE, ret |-> <<Zero, Zero>>]

\* lines 62-66: the guard and the initial search box
gcj02_enter(lng, lat) ==
    IF outOfChina(lng, lat)
    THEN [lng |-> lng, lat |-> lat,
          minLat |-> Zero, maxLat |-> Zero, minLng |-> Zero, maxLng |-> Zero,
          midLat |-> Zero, midLng |-> Zero,
          i |-> 0, calls |-> 0, done |-> TRUE, ret |-> <<lng, lat>>]
    ELSE [lng |-> lng, lat |-> lat,
          minLat |-> NSub(lat, Dec(0, <<5>>)), maxLat |-> NAdd(lat, Dec(0, <<5>>)),
          minLng |-> NSub(lng, Dec(0, <<5>>)), maxLng |-> NAdd(lng, Dec(0, <<5>>)),
          midLat |-> Zero, midLng |-> Zero,
          i |-> 0, calls |-> 0, done |-> FALSE, ret |-> <<Zero, Zero>>]

\* lines 67-87: one pass through the body of the for loop, with the ++i and
\* the loop test that follow it (and the return at line 87 when the test fails)
\* gcj02_iterate is split in three, each part taking as parameters the locals
\* the code has computed by then.
\* lines 79-85 and the loop header: narrow the box, ++i, test i < 30; g is the
\* frame with the new midpoint
\* variant: the loop test is i <= 30
gcj02_narrow_inclusive(g, dLng, dLat) ==
    [g EXCEPT
       !.maxLat = IF NGt(dLat, Zero) THEN g.midLat ELSE g.maxLat,
       !.minLat = IF NGt(dLat, Zero) THEN g.minLat ELSE g.midLat,
       !.maxLng = IF NGt(dLng, Zero) THEN g.midLng ELSE g.maxLng,
       !.minLng = IF NGt(dLng, Zero) THEN g.minLng ELSE g.midLng,
       !.i = g.i + 1,
       !.done = ~(g.i + 1 <= MaxIter),
       !.ret = IF g.i + 1 <= MaxIter THEN g.ret ELSE <<g.midLng, g.midLat>>]

\* variant: the sign of dLat decides the narrowing of both axes
gcj02_narrow_coupled(g, dLng, dLat) ==
    [g EXCEPT
       !.maxLat = IF NGt(dLat, Zero) THEN g.midLat ELSE g.maxLat,
       !.minLat = IF NGt(dLat, Zero) THEN g.minLat ELSE g.midLat,
       !.maxLng = IF NGt(dLat, Zero) THEN g.midLng ELSE g.maxLng,
       !.minLng = IF NGt(dLat, Zero) THEN g.minLng ELSE g.midLng,
       !.i = g.i + 1,
       !.done = ~(g.i + 1 < MaxIter),
       !.ret = IF g.i + 1 < MaxIter THEN g.ret ELSE <<g.midLng, g.midLat>>]

\* variant: after the last pass the middle of the narrowed box is returned
gcj02_narrow_remid(g, dLng, dLat) ==
    [g EXCEPT
       !.maxLat = IF NGt(dLat, Zero) THEN g.midLat ELSE g.maxLat,
       !.minLat = IF NGt(dLat, Zero) THEN g.minLat ELSE g.midLat,
       !.maxLng = IF NGt(dLng, Zero) THEN g.midLng ELSE g.maxLng,
       !.minLng = IF NGt(dLng, Zero) THEN g.minLng ELSE g.midLng,
       !.i = g.i + 1,
       !.done = ~(g.i + 1 < MaxIter),
       !.ret = IF g.i + 1 < MaxIter THEN g.ret
               ELSE <<NHalf(NAdd(IF NGt(dLng, Zero) THEN g.minLng ELSE g.midLng,
                                 IF NGt(dLng, Zero) THEN g.midLng ELSE g.maxLng)),
                      NHalf(NAdd(IF NGt(dLat, Zero) THEN g.minLat ELSE g.midLat,
                                 IF NGt(dLat, Zero) THEN g.midLat ELSE g.maxLat))>>]

gcj02_narrow(g, dLng, dLat) ==
    [g EXCEPT
       !.maxLat = IF NGt(dLat, Zero) THEN g.midLat ELSE g.maxLat,
       !.minLat = IF NGt(dLat, Zero) THEN g.minLat ELSE g.midLat,
       !.maxLng = IF NGt(dLng, Zero) THEN g.midLng ELSE g.maxLng,
       !.minLng = IF NGt(dLng, Zero) THEN g.minLng ELSE g.midLng,
       !.i = g.i + 1,
       !.done = ~(g.i + 1 < MaxIter),
       !.ret = IF g.i + 1 < MaxIter THEN g.ret ELSE <<g.midLng, g.midLat>>]

\* variant: one axis within the threshold is enough to return
gcj02_compare_either(g, tmp) ==
    IF BelowThreshold(NSub(tmp[2], g.lat)) \/ BelowThreshold(NSub(tmp[1], g.lng))
    THEN [g EXCEPT !.done = TRUE, !.ret = <<g.midLng, g.midLat>>]
    ELSE gcj02_narrow(g, NSub(tmp[1], g.lng), NSub(tmp[2], g.lat))

\* lines 70-75: the differences and the early return
gcj02_compare(g, tmp) ==
    IF BelowThreshold(NSub(tmp[2], g.lat)) /\ BelowThreshold(NSub(tmp[1], g.lng))
    THEN [g EXCEPT !.done = TRUE, !.ret = <<g.midLng, g.midLat>>]
    ELSE gcj02_narrow(g, NSub(tmp[1], g.lng), NSub(tmp[2], g.lat))

\* variant: the midpoint is handed to the forward transform latitude first
gcj02_probe_swapped(g) ==
    gcj02_compare(g, wgs84_to_gcj02(g.midLat, g.midLng))

\* lines 68-69: the midpoint and the forward evaluation
gcj02_probe(g) == gcj02_compare(g, wgs84_to_gcj02(g.midLng, g.midLat))

\* variant: the midpoint is taken between the last midpoint and the upper bound
gcj02_iterate_from_mid(f) ==
    gcj02_probe([f EXCEPT !.midLat = NHalf(NAdd(f.midLat, f.maxLat)),
                          !.midLng = NHalf(NAdd(f.midLng, f.maxLng)),
                          !.calls = f.calls + 1])

gcj02_iterate(f) ==
    gcj02_probe([f EXCEPT !.midLat = NHalf(NAdd(f.minLat, f.maxLat)),
                          !.midLng = NHalf(NAdd(f.minLng, f.maxLng)),
                          !.calls = f.calls + 1])

RECURSIVE gcj02_run(_)
gcj02_run(f) == IF f.done THEN f ELSE gcj02_run(gcj02_iterate(f))

gcj02_to_wgs84(lng, lat) == gcj02_run(gcj02_enter(lng, lat)).ret

(***************************************************************************)
(* bd09_to_gcj02.  With r = sqrt(x*x + y*y), d = 0.00002 * sin(y * PI) and *)
(* e = 0.000003 * cos(x * PI), the program computes z = r - d,             *)
(* theta = atan2(y, x) - e, and returns (z * cos(theta), z * sin(theta)).  *)
(* cos(atan2(y, x)) = x / r and sin(atan2(y, x)) = y / r, so by the        *)
(* subtraction formulas                                                    *)
(*     cos(theta) = (x / r) cos(e) + (y / r) sin(e)                        *)
(*     sin(theta) = (y / r) cos(e) - (x / r) sin(e)                        *)
(*     z cos(theta) = x cos(e) + y sin(e) - d cos(theta)                   *)
(*     z sin(theta) = y cos(e) - x sin(e) - d sin(theta)                   *)
(* and the model evaluates these right-hand sides: an angle of about one   *)
(* radian held in 31 bits cannot carry the 1e-9 degrees at radius 130 that *)
(* the double does.  |e| <= 3e-6, so sin(e) = e and cos(e) = 1 - e*e/2 to  *)
(* 1e-17.  x, y, r are Q21 here, which bounds |x|, |y| below 256 degrees.  *)
(***************************************************************************)
ToQ21(n) == (n[1] * 2^21) + (n[2] \div 512)

bd09_to_gcj02(bd_lng, bd_lat) ==
    LET x == NSub(bd_lng, Dec(0, <<0,0,6,5>>))
        y == NSub(bd_lat, Dec(0, <<0,0,6>>))
        X == ToQ21(x)
        Y == ToQ21(y)
        \* sqrt(x*x + y*y), Q21
        r == SqrtQ(MulShift(Abs(X), Abs(X), 30) + MulShift(Abs(Y), Abs(Y), 30), 30)
        \* 0.00002 * sin(y * PI), Q40 degrees
        d == SMulDiv(sin(TurnDiv(y, 2)), 2 * 2^11, 10^5)
        \* 0.000003 * cos(x * PI), Q46 radians
        e == SMulDiv(cos(TurnDiv(x, 2)), 3 * 2^17, 10^6)
        \* cos and sin of atan2(y, x), Q29; atan2(0, 0) = 0
        cosA == IF r = 0 THEN One ELSE Sgn(X) * MulDiv(One, Abs(X), r)
        sinA == IF r = 0 THEN 0 ELSE Sgn(Y) * MulDiv(One, Abs(Y), r)
        \* sin(e), Q29, and 1 - cos(e), Q62
        sinE == e \div 2^17
        oneMinusCosE == MulShift(Abs(e), Abs(e), 30) \div 2
        cosTheta == cosA + SMul(sinA, sinE, 29)
        sinTheta == sinA - SMul(cosA, sinE, 29)
        \* Q30 degrees
        xSinE == SMul(X, e, 30) \div 2^7
        ySinE == SMul(Y, e, 30) \div 2^7
        xOneMinusCosE == SMul(X, oneMinusCosE, 30) \div 2^23
        yOneMinusCosE == SMul(Y, oneMinusCosE, 30) \div 2^23
        dCosTheta == SMul(d, cosTheta, 29) \div 2^10
        dSinTheta == SMul(d, sinTheta, 29) \div 2^10
        gg_lng == NShift(x, (ySinE - xOneMinusCosE) - dCosTheta)
        gg_lat == NShift(y, ((-xSinE) - yOneMinusCosE) - dSinTheta)
    IN  <<gg_lng, gg_lat>>

(***************************************************************************)
(* bd09_to_wgs84                                                           *)
(***************************************************************************)
\* variant: the pair is handed on with its components swapped
bd09_to_wgs84_swapped(bd_lng, bd_lat) ==
    LET g == bd09_to_gcj02(bd_lng, bd_lat)
    IN  gcj02_to_wgs84(g[2], g[1])

bd09_to_wgs84(bd_lng, bd_lat) ==
    LET g == bd09_to_gcj02(bd_lng, bd_lat)
    IN  gcj02_to_wgs84(g[1], g[2])

(***************************************************************************)
(* Text.  A stream is a sequence of characters, each a one-character       *)
(* string.  ExtractDouble and ExtractChar are operator>> for double and    *)
(* for char on a stream s read from position p: leading white space is     *)
(* skipped; a double is an optional sign, digits, an optional point and    *)
(* digits, with at least one digit, and then, if an e or E follows, an     *)
(* exponent: an optional sign and digits, without which the extraction     *)
(* fails; a char is the next character, and fails only at the end.  Each   *)
(* returns [ok, val, next], next the position after what it read.  (The    *)
(* exponents in the streams of this model are small: a value stays within  *)
(* the range of Num.)                                                      *)
(***************************************************************************)
IsSpace(c) == c \in {" ", "\n", "\t"}

DigitChars == <<"0", "1", "2", "3", "4", "5", "6", "7", "8", "9">>

IsDigit(c) == \E k \in 1..10 : DigitChars[k] = c

DigitVal(c) == (CHOOSE k \in 1..10 : DigitChars[k] = c) - 1

RECURSIVE SkipWs(_, _)
SkipWs(s, p) == IF p <= Len(s) /\ IsSpace(s[p]) THEN SkipWs(s, p + 1) ELSE p

RECURSIVE TakeDigits(_, _)
TakeDigits(s, p) == IF p <= Len(s) /\ IsDigit(s[p]) THEN TakeDigits(s, p + 1) ELSE p

\* the values of the digits s[a], ..., s[b - 1]
DigitsOf(s, a, b) == [k \in 1..(b - a) |-> DigitVal(s[a + k - 1])]

RECURSIVE IntOf(_, _)
IntOf(digs, acc) ==
    IF digs = <<>> THEN acc ELSE IntOf(Tail(digs), (10 * acc) + Head(digs))

\* The scan of a double is written in stages, each taking the positions
\* found so far: p1 after the white space, p2 after the sign, p3 after the
\* integer digits, p4 after the point and the fraction digits, p5 after the
\* e and the sign of the exponent, p6 after the digits of the exponent.
MakeDouble(neg, int, frac, p4) ==
    [ok |-> Len(int) + Len(frac) > 0,
     val |-> IF Len(int) + Len(frac) = 0 THEN Zero
             ELSE IF neg THEN NNeg(<<IntOf(int, 0), FracQ(frac)>>)
             ELSE <<IntOf(int, 0), FracQ(frac)>>,
     next |-> p4]

\* the digits all with the point after the first n of them
ShiftPoint(neg, all, n, p6) ==
    MakeDouble(neg,
               IF n <= 0 THEN <<>>
               ELSE IF n >= Len(all)
                    THEN all \o [k \in 1..(n - Len(all)) |-> 0]
                    ELSE SubSeq(all, 1, n),
               IF n <= 0 THEN [k \in 1..(-n) |-> 0] \o all
               ELSE IF n >= Len(all) THEN <<>>
                    ELSE SubSeq(all, n + 1, Len(all)),
               p6)

ScanExpDigits(s, neg, int, frac, p5, p6) ==
    IF p6 = p5 THEN [ok |-> FALSE, val |-> Zero, next |-> p6]
    ELSE ShiftPoint(neg, int \o frac,
                    Len(int) + ((IF s[p5 - 1] = "-" THEN -1 ELSE 1)
                                  * IntOf(DigitsOf(s, p5, p6), 0)),
                    p6)

ScanExpSign(s, neg, int, frac, p5) ==
    ScanExpDigits(s, neg, int, frac, p5, TakeDigits(s, p5))

ScanExp(s, neg, int, frac, p4) ==
    IF Len(int) + Len(frac) > 0 /\ p4 <= Len(s) /\ s[p4] \in {"e", "E"}
    THEN ScanExpSign(s, neg, int, frac,
                     IF p4 + 1 <= Len(s) /\ s[p4 + 1] \in {"+", "-"}
                     THEN p4 + 2 ELSE p4 + 1)
    ELSE MakeDouble(neg, int, frac, p4)

ScanFrac(s, p1, p2, p3, p4) ==
    ScanExp(s,
            p1 <= Len(s) /\ s[p1] = "-",
            DigitsOf(s, p2, p3),
            IF p4 > p3 THEN DigitsOf(s, p3 + 1, p4) ELSE <<>>,
            p4)

ScanPoint(s, p1, p2, p3) ==
    ScanFrac(s, p1, p2, p3,
             IF p3 <= Len(s) /\ s[p3] = "." THEN TakeDigits(s, p3 + 1) ELSE p3)

ScanInt(s, p1, p2) == ScanPoint(s, p1, p2, TakeDigits(s, p2))

ScanSign(s, p1) ==
    ScanInt(s, p1, IF p1 <= Len(s) /\ s[p1] \in {"+", "-"} THEN p1 + 1 ELSE p1)

ExtractDouble(s, p) == ScanSign(s, SkipWs(s, p))

CharAt(s, p1) ==
    [ok |-> p1 <= Len(s),
     val |-> IF p1 <= Len(s) THEN s[p1] ELSE "",
     next |-> IF p1 <= Len(s) THEN p1 + 1 ELSE p1]

\* variant: the delimiter is looked at and left in the stream
ExtractChar_peek(s, p) ==
    [ok |-> SkipWs(s, p) <= Len(s),
     val |-> IF SkipWs(s, p) <= Len(s) THEN s[SkipWs(s, p)] ELSE "",
     next |-> p]

ExtractChar(s, p) == CharAt(s, SkipWs(s, p))

\* cin >> bd_lng >> delimiter >> bd_lat: after a failed extraction the later
\* ones do nothing ("" and Zero stand for the variables they leave unread)
\* a, b, c are the results of the three extractions
ReadLat(a, b, c) ==
    [ok |-> c.ok, bd_lng |-> a.val, delimiter |-> b.val, bd_lat |-> c.val,
     next |-> c.next]

ReadDelimiter(s, a, b) ==
    IF b.ok THEN ReadLat(a, b, ExtractDouble(s, b.next))
    ELSE [ok |-> FALSE, bd_lng |-> a.val, delimiter |-> "", bd_lat |-> Zero,
          next |-> b.next]

ReadLng(s, a) ==
    IF a.ok THEN ReadDelimiter(s, a, ExtractChar(s, a.next))
    ELSE [ok |-> FALSE, bd_lng |-> a.val, delimiter |-> "", bd_lat |-> Zero,
          next |-> a.next]

ReadRecord(s, p) == ReadLng(s, ExtractDouble(s, p))

(***************************************************************************)
(* operator<< for double under ios::fixed and setprecision(8): the sign,   *)
(* the integer part, a point and eight decimals, rounded to nearest.       *)
(***************************************************************************)
RECURSIVE IntDigits(_)
IntDigits(n) ==
    IF n < 10 THEN <<DigitChars[n + 1]>>
    ELSE Append(IntDigits(n \div 10), DigitChars[(n % 10) + 1])

RECURSIVE FracDigits(_, _)
FracDigits(f, k) ==
    IF k = 0 THEN <<>>
    ELSE Append(FracDigits(f \div 10, k - 1), DigitChars[(f % 10) + 1])

Precision == 8

Fixed(n) ==
    LET a == NAbs(n)
        f == (MulShift(a[2], 10^Precision, 29) + 1) \div 2
        carry == IF f = 10^Precision THEN 1 ELSE 0
    IN  (IF n[1] < 0 THEN <<"-">> ELSE <<>>)
          \o IntDigits(a[1] + carry) \o <<".">>
          \o FracDigits(IF carry = 1 THEN 0 ELSE f, Precision)

\* variant: the separator is a hard-coded comma
OutputLine_comma(w, delimiter) ==
    Fixed(NAdd(w[1], Dec(0, <<0,0,0,1>>))) \o <<",">> \o <<" ">>
      \o Fixed(NSub(w[2], Dec(0, <<0,0,0,3>>))) \o <<"\n">>

\* variant: the two offsets are exchanged
OutputLine_offsets_exchanged(w, delimiter) ==
    Fixed(NSub(w[1], Dec(0, <<0,0,0,3>>))) \o <<delimiter>> \o <<" ">>
      \o Fixed(NAdd(w[2], Dec(0, <<0,0,0,1>>))) \o <<"\n">>

\* line 107
OutputLine(w, delimiter) ==
    Fixed(NAdd(w[1], Dec(0, <<0,0,0,1>>))) \o <<delimiter>> \o <<" ">>
      \o Fixed(NSub(w[2], Dec(0, <<0,0,0,3>>))) \o <<"\n">>

(***************************************************************************)
(* The input streams of the model: up to MaxLines lines, each one of       *)
(* InputLines.  A line ends with a newline, so no number runs across two   *)
(* lines; a record may: "7" on one line is a longitude whose delimiter is  *)
(* the first character of the next line, and so is "2e1".                  *)
(***************************************************************************)
MaxLines == 3

InputLines ==
    { <<"1", "1", "6", ".", "4", "0", "4", ",", "3", "9", ".", "9", "1", "5", "\n">>,
      <<"1", "2", "1", ".", "4", "7", "3", "7", ";", "3", "1", ".", "2", "3", "0", "8", "5", "\n">>,
      <<"-", "1", ".", "5", ":", "2", "\n">>,
      <<"2", "e", "1", "\n">>,
      <<"1", "1", "6", ".", "4", "0", "4", " ", "3", "9", ".", "9", "1", "5", "\n">>,
      <<"x", "\n">>,
      <<"5", ",", "y", "\n">>,
      <<"7", "\n">> }

RECURSIVE StreamsOf(_)
StreamsOf(n) ==
    IF n = 0 THEN {<<>>}
    ELSE LET S == StreamsOf(n - 1)
         IN  S \cup {s \o l : s \in S, l \in InputLines}

Streams == StreamsOf(MaxLines)

(***************************************************************************)
(* RecordsFrom(s, p) is the sequence of records that successive reads take *)
(* from s, starting at p, up to the first read that fails.  Wgs84Table is  *)
(* bd09_to_wgs84 tabulated, once, over the pairs the streams hold, and     *)
(* Wgs84Of(r) is bd09_to_wgs84 of the pair of record r, looked up there:   *)
(* the same pair is converted in many states.                              *)
(***************************************************************************)
RECURSIVE RecordsFrom(_, _)
RecordsFrom(s, p) ==
    LET r == ReadRecord(s, p)
    IN  IF r.ok THEN <<r>> \o RecordsFrom(s, r.next) ELSE <<>>

InputPairs ==
    UNION {{<<RecordsFrom(s, 1)[k].bd_lng, RecordsFrom(s, 1)[k].bd_lat>> :
              k \in 1..Len(RecordsFrom(s, 1))} : s \in Streams}

Wgs84Table == [p \in InputPairs |-> bd09_to_wgs84(p[1], p[2])]

Wgs84Of(r) == Wgs84Table[<<r.bd_lng, r.bd_lat>>]

(***************************************************************************)
(* State.                                                                  *)
(*   main:  input     the whole of standard input                          *)
(*          pos       the position of cin in it                            *)
(*          cout      the characters written to standard output            *)
(*          cerr      the characters written to standard error             *)
(*          parsed    the records read so far, in order (history)          *)
(*          pc        "loop" at the head of while (1), "done" after return *)
(*          returned  <<>> while main runs, then <<its return value>>      *)
(*   a call of the transforms on their own:                                *)
(*          fn        which composition is applied                         *)
(*          arg       its argument, a pair <<lng, lat>>                    *)
(*          where     on which side of the box arg was placed (history)    *)
(*          gcj       the GCJ-02 point of the first leg                    *)
(*          frame     the frame of gcj02_to_wgs84                          *)
(*          phase     "start", "forwarded", "inverse"                      *)
(***************************************************************************)
VARIABLES input, pos, cout, cerr, parsed, pc, returned,
          fn, arg, where, gcj, frame, phase

mainVars == <<input, pos, cout, cerr, parsed, pc, returned>>

callVars == <<fn, arg, where, gcj, frame, phase>>

\* the service worker: the tile cache, the fetch handlers in flight and
\* the cache.put and trimTileCache calls they started
VARIABLES cache, handlers, puts, trims

swVars == <<cache, handlers, puts, trims>>

\* the App component
VARIABLES app

appVars == <<app>>

\* the MapView component
VARIABLES mv

mapVars == <<mv>>

\* the favourites in localStorage, the query string of location.href, the
\* favourites of MapView and the share link on the clipboard
VARIABLES storage, href, favMounted, favSet, nextFavs, clipboard

favVars == <<storage, href, favMounted, favSet, nextFavs, clipboard>>

webVars == <<swVars, appVars, mapVars, favVars>>

notSw == <<input, pos, cout, cerr, parsed, pc, returned,
           fn, arg, where, gcj, frame, phase, appVars, mapVars, favVars>>

notApp == <<input, pos, cout, cerr, parsed, pc, returned,
            fn, arg, where, gcj, frame, phase, swVars, mapVars, favVars>>

notFav == <<input, pos, cout, cerr, parsed, pc, returned,
            fn, arg, where, gcj, frame, phase, swVars, appVars, mapVars>>

notMap == <<input, pos, cout, cerr, parsed, pc, returned,
            fn, arg, where, gcj, frame, phase, swVars, appVars, favVars>>

vars == <<input, pos, cout, cerr, parsed, pc, returned,
          fn, arg, where, gcj, frame, phase, webVars>>

NoFrame ==
    [lng |-> Zero, lat |-> Zero,
     minLat |-> Zero, maxLat |-> Zero, minLng |-> Zero, maxLng |-> Zero,
     midLat |-> Zero, midLng |-> Zero,
     i |-> 0, calls |-> 0, done |-> FALSE, ret |-> <<Zero, Zero>>]

NoCall ==
    /\ fn = "none"
    /\ arg = <<Zero, Zero>>
    /\ where = <<"in", "in">>
    /\ gcj = <<Zero, Zero>>
    /\ frame = NoFrame
    /\ phase = "start"

\* no service worker
NoSw ==
    /\ cache = <<>>
    /\ handlers = <<>>
    /\ puts = <<>>
    /\ trims = <<>>

\* no App
NoApp ==
    /\ app = <<>>

\* no MapView
NoMap ==
    /\ mv = <<>>

\* no favourites
NoFav ==
    /\ storage = <<>>
    /\ href = <<>>
    /\ favMounted = FALSE
    /\ favSet = <<>>
    /\ nextFavs = <<>>
    /\ clipboard = <<>>

NoWeb ==
    /\ NoSw
    /\ NoApp
    /\ NoMap
    /\ NoFav

NoMain ==
    /\ input = <<>>
    /\ pos = 1
    /\ cout = <<>>
    /\ cerr = <<>>
    /\ parsed = <<>>
    /\ pc = "done"
    /\ returned = <<>>

(***************************************************************************)
(* main                                                                    *)
(***************************************************************************)
Init ==
    /\ input \in Streams
    /\ pos = 1
    /\ cout = <<>>
    /\ cerr = <<>>
    /\ parsed = <<>>
    /\ pc = "loop"
    /\ returned = <<>>
    /\ NoCall
    /\ NoWeb

\* variant: the new line is put in front of the output
MainConvert_prepend ==
    /\ pc = "loop"
    /\ LET r == ReadRecord(input, pos)
       IN  /\ r.ok
           /\ LET w == Wgs84Of(r)
              IN  cout' = OutputLine(w, r.delimiter) \o cout
           /\ pos' = r.next
           /\ parsed' = Append(parsed, [bd_lng |-> r.bd_lng,
                                        delimiter |-> r.delimiter,
                                        bd_lat |-> r.bd_lat])
    /\ UNCHANGED <<input, cerr, pc, returned>>
    /\ UNCHANGED <<callVars, webVars>>

\* variant: the calibration offset is added to the pair before conversion
MainConvert_offset_input ==
    /\ pc = "loop"
    /\ LET r == ReadRecord(input, pos)
       IN  /\ r.ok
           /\ LET w == bd09_to_wgs84(NAdd(r.bd_lng, Dec(0, <<0,0,0,1>>)),
                                     NSub(r.bd_lat, Dec(0, <<0,0,0,3>>)))
              IN  cout' = cout \o Fixed(w[1]) \o <<r.delimiter, " ">>
                            \o Fixed(w[2]) \o <<"\n">>
           /\ pos' = r.next
           /\ parsed' = Append(parsed, [bd_lng |-> r.bd_lng,
                                        delimiter |-> r.delimiter,
                                        bd_lat |-> r.bd_lat])
    /\ UNCHANGED <<input, cerr, pc, returned>>
    /\ UNCHANGED <<callVars, webVars>>

\* variant: the delimiter is kept from the first record of the run
MainConvert_first_delimiter ==
    /\ pc = "loop"
    /\ LET r == ReadRecord(input, pos)
       IN  /\ r.ok
           /\ LET w == Wgs84Of(r)
              IN  cout' = cout \o OutputLine(w, IF parsed = <<>>
                                                THEN r.delimiter
                                                ELSE parsed[1].delimiter)
           /\ pos' = r.next
           /\ parsed' = Append(parsed, [bd_lng |-> r.bd_lng,
                                        delimiter |-> r.delimiter,
                                        bd_lat |-> r.bd_lat])
    /\ UNCHANGED <<input, cerr, pc, returned>>
    /\ UNCHANGED <<callVars, webVars>>

\* lines 103-107: the read succeeds, the pair is converted and printed
\* (line 106, w = bd09_to_wgs84(bd_lng, bd_lat), through the table)
MainConvert ==
    /\ pc = "loop"
    /\ LET r == ReadRecord(input, pos)
       IN  /\ r.ok
           /\ LET w == Wgs84Of(r)
              IN  cout' = cout \o OutputLine(w, r.delimiter)
           /\ pos' = r.next
           /\ parsed' = Append(parsed, [bd_lng |-> r.bd_lng,
                                        delimiter |-> r.delimiter,
                                        bd_lat |-> r.bd_lat])
    /\ UNCHANGED <<input, cerr, pc, returned>>
    /\ UNCHANGED <<callVars, webVars>>

\* variant: a failed read makes main return 1
MainBreak_nonzero ==
    /\ pc = "loop"
    /\ ~ReadRecord(input, pos).ok
    /\ pc' = "done"
    /\ returned' = <<1>>
    /\ UNCHANGED <<input, pos, cout, cerr, parsed>>
    /\ UNCHANGED <<callVars, webVars>>

\* variant: a failed read before the end of the input skips the rest of the
\* line and the loop goes on
MainBreak_continue ==
    /\ pc = "loop"
    /\ ~ReadRecord(input, pos).ok
    /\ IF pos <= Len(input)
       THEN /\ pos' = 1 + CHOOSE q \in pos..Len(input) :
                             /\ input[q] = "\n"
                             /\ \A j \in pos..(q - 1) : input[j] # "\n"
            /\ UNCHANGED <<pc, returned>>
       ELSE pc' = "done" /\ returned' = <<0>> /\ UNCHANGED pos
    /\ UNCHANGED <<input, cout, cerr, parsed>>
    /\ UNCHANGED <<callVars, webVars>>

\* lines 105, 109: the read fails, the loop is left and main returns 0
MainBreak ==
    /\ pc = "loop"
    /\ ~ReadRecord(input, pos).ok
    /\ pc' = "done"
    /\ returned' = <<0>>
    /\ UNCHANGED <<input, pos, cout, cerr, parsed>>
    /\ UNCHANGED <<callVars, webVars>>

Next == MainConvert \/ MainBreak

Spec == Init /\ [][Next]_vars

(***************************************************************************)
(* The conversion functions called on their own.  The arguments are drawn  *)
(* from SamplePoints: on each axis the two edges of the box and the values *)
(* up to EdgeSpan steps of 2^-30 degree on either side of them, a grid of  *)
(* interior values, and the coordinates of the interior point (78, 51).    *)
(* Each value carries the side of the box it was placed on, which is what  *)
(* `where' remembers.                                                      *)
(***************************************************************************)
EdgeSpan == 1

GridSteps == 2

LngSamples ==
    {<<NShift(BoxMinLng, k), IF k < 0 THEN "below" ELSE "in">> :
        k \in (-EdgeSpan)..EdgeSpan}
    \cup {<<NShift(BoxMaxLng, k), IF k > 0 THEN "above" ELSE "in">> :
        k \in (-EdgeSpan)..EdgeSpan}
    \cup {<<<<73 + (16 * k), 0>>, "in">> : k \in 0..GridSteps}
    \cup {<<<<78, 0>>, "in">>}

LatSamples ==
    {<<NShift(BoxMinLat, k), IF k < 0 THEN "below" ELSE "in">> :
        k \in (-EdgeSpan)..EdgeSpan}
    \cup {<<NShift(BoxMaxLat, k), IF k > 0 THEN "above" ELSE "in">> :
        k \in (-EdgeSpan)..EdgeSpan}
    \cup {<<<<5 + (12 * k), 0>>, "in">> : k \in 0..GridSteps}
    \cup {<<<<51, 0>>, "in">>}

\* "roundtrip" is gcj02_to_wgs84 applied to the result of wgs84_to_gcj02
Fns == {"roundtrip", "gcj02_to_wgs84", "bd09_to_wgs84"}

InitCall ==
    /\ NoMain
    /\ fn \in Fns
    /\ \E a \in LngSamples, b \in LatSamples :
          /\ arg = <<a[1], b[1]>>
          /\ where = <<a[2], b[2]>>
    /\ gcj = (IF fn = "gcj02_to_wgs84" THEN arg ELSE <<Zero, Zero>>)
    /\ frame = NoFrame
    /\ phase = (IF fn = "gcj02_to_wgs84" THEN "forwarded" ELSE "start")
    /\ NoWeb

\* lines 46-59, called on arg
CallWgs84ToGcj02 ==
    /\ fn = "roundtrip"
    /\ phase = "start"
    /\ gcj' = wgs84_to_gcj02(arg[1], arg[2])
    /\ phase' = "forwarded"
    /\ UNCHANGED <<fn, arg, where, frame>>
    /\ UNCHANGED <<mainVars, webVars>>

\* variant: a pair outside the box is handed on as it is
CallBd09ToGcj02_guarded ==
    /\ fn = "bd09_to_wgs84"
    /\ phase = "start"
    /\ gcj' = (IF outOfChina(arg[1], arg[2])
               THEN arg ELSE bd09_to_gcj02(arg[1], arg[2]))
    /\ phase' = "forwarded"
    /\ UNCHANGED <<fn, arg, where, frame>>
    /\ UNCHANGED <<mainVars, webVars>>

\* line 91
CallBd09ToGcj02 ==
    /\ fn = "bd09_to_wgs84"
    /\ phase = "start"
    /\ gcj' = bd09_to_gcj02(arg[1], arg[2])
    /\ phase' = "forwarded"
    /\ UNCHANGED <<fn, arg, where, frame>>
    /\ UNCHANGED <<mainVars, webVars>>

\* lines 61-66 (and line 92): gcj02_to_wgs84 is entered with the GCJ-02 point
EnterGcj02ToWgs84 ==
    /\ phase = "forwarded"
    /\ frame' = gcj02_enter(gcj[1], gcj[2])
    /\ phase' = "inverse"
    /\ UNCHANGED <<fn, arg, where, gcj>>
    /\ UNCHANGED <<mainVars, webVars>>

\* lines 67-87: one iteration of the loop
IterateGcj02ToWgs84 ==
    /\ phase = "inverse"
    /\ ~frame.done
    /\ frame' = gcj02_iterate(frame)
    /\ UNCHANGED <<fn, arg, where, gcj, phase>>
    /\ UNCHANGED <<mainVars, webVars>>

NextCall ==
    \/ CallWgs84ToGcj02
    \/ CallBd09ToGcj02
    \/ EnterGcj02ToWgs84
    \/ IterateGcj02ToWgs84

SpecCall == InitCall /\ [][NextCall]_vars

(***************************************************************************)
(* Properties of the conversion functions, checked under SpecCall.         *)
(***************************************************************************)
\* C1: for a point for which outOfChina is true, wgs84_to_gcj02 returns the
\* point itself, and gcj02_to_wgs84 returns the point itself at once: no
\* forward evaluation and no pass through the loop.
C1_OutsideUnchanged ==
    outOfChina(arg[1], arg[2]) =>
        /\ (fn = "roundtrip" /\ phase # "start" => gcj = arg)
        /\ (fn \in {"roundtrip", "gcj02_to_wgs84"} /\ phase = "inverse" =>
              /\ frame.done
              /\ frame.ret = arg
              /\ frame.calls = 0
              /\ frame.i = 0)

C1_Witness ==
    /\ outOfChina(arg[1], arg[2])
    /\ fn = "roundtrip"
    /\ phase = "inverse"
    /\ frame.done

\* C2: for a point inside the box, edges included, gcj02_to_wgs84 applied to
\* wgs84_to_gcj02 of the point returns the point to within 1e-6 degree on
\* each axis.  (A difference d is k / 2^30, and |k| / 2^30 <= 1 / 10^6 iff
\* |k| <= floor(2^30 / 10^6).)
C2_RoundTripWithin1e6 ==
    LET Within1e6(d) == NAbs(d)[1] = 0 /\ NAbs(d)[2] <= Q \div 10^6
    IN  (fn = "roundtrip" /\ phase = "inverse" /\ frame.done
           /\ ~outOfChina(arg[1], arg[2])) =>
            /\ Within1e6(NSub(frame.ret[1], arg[1]))
            /\ Within1e6(NSub(frame.ret[2], arg[2]))

\* C3: a call of gcj02_to_wgs84 makes at most 30 passes through its loop and
\* at most 30 evaluations of wgs84_to_gcj02, and has returned once it has
\* made 30.
C3_AtMost30Iterations ==
    phase = "inverse" =>
        /\ frame.calls <= 30
        /\ frame.i <= 30
        /\ (frame.calls = 30 => frame.done)

C3_Witness == phase = "inverse" /\ frame.done /\ frame.calls = 30

\* C4: bd09_to_wgs84 of a pair is what gcj02_to_wgs84 returns when entered
\* with the pair bd09_to_gcj02 returned, longitude first, latitude second.
C4_Composition ==
    (fn = "bd09_to_wgs84" /\ phase = "inverse" /\ frame.done) =>
        /\ gcj = bd09_to_gcj02(arg[1], arg[2])
        /\ frame.lng = gcj[1]
        /\ frame.lat = gcj[2]
        /\ bd09_to_wgs84(arg[1], arg[2]) = frame.ret

C4_Witness ==
    /\ fn = "bd09_to_wgs84"
    /\ phase = "inverse"
    /\ frame.done
    /\ frame.calls > 0
    /\ frame.ret # <<frame.ret[2], frame.ret[1]>>

\* C10: outOfChina is true exactly for the points placed below the lower
\* or above the upper edge on some axis; a point on an edge is inside.
C10_StrictEdges ==
    outOfChina(arg[1], arg[2]) <=> (where[1] # "in" \/ where[2] # "in")

C10_Witness ==
    /\ fn = "gcj02_to_wgs84"
    /\ phase = "inverse"
    /\ arg[1] = BoxMinLng
    /\ where = <<"in", "in">>
    /\ ~frame.done

\* C11: bd09_to_wgs84 applies bd09_to_gcj02 to every pair, inside the box or
\* not; whether gcj02_to_wgs84 then returns at once is decided by outOfChina
\* of the GCJ-02 pair, not of the BD-09 pair; and when the GCJ-02 pair is
\* outside the box, bd09_to_wgs84 returns exactly bd09_to_gcj02 of its
\* arguments, without a forward evaluation.
C11_GuardOnGcj02Point ==
    fn = "bd09_to_wgs84" =>
        /\ (phase # "start" => gcj = bd09_to_gcj02(arg[1], arg[2]))
        /\ (phase = "inverse" /\ outOfChina(gcj[1], gcj[2]) =>
              /\ frame.done
              /\ frame.calls = 0
              /\ frame.ret = bd09_to_gcj02(arg[1], arg[2])
              /\ bd09_to_wgs84(arg[1], arg[2]) = bd09_to_gcj02(arg[1], arg[2]))
        /\ (phase = "inverse" /\ ~outOfChina(gcj[1], gcj[2]) =>
              (frame.done => frame.calls >= 1))

\* a BD-09 pair inside the box whose GCJ-02 pair is outside it
C11_Witness ==
    /\ fn = "bd09_to_wgs84"
    /\ phase = "inverse"
    /\ ~outOfChina(arg[1], arg[2])
    /\ outOfChina(gcj[1], gcj[2])
    /\ frame.done
    /\ frame.ret = gcj
    /\ gcj # arg

\* C21: the forward transform moves a point inside the box by less than 0.5
\* degree on each axis, so when the search is entered for the image of a
\* point, its first box, from 0.5 degree below to 0.5 degree above the
\* target on each axis, holds that point.
C21_InitialBoxHoldsPreimage ==
    LET Half == Dec(0, <<5>>)
        Moved ==
            {p \in {arg} : fn = "roundtrip" /\ phase # "start"}
              \cup {p \in {<<frame.midLng, frame.midLat>>} :
                      phase = "inverse" /\ frame.calls >= 1}
    IN  /\ \A p \in Moved :
              /\ NLt(NAbs(NSub(wgs84_to_gcj02(p[1], p[2])[1], p[1])), Half)
              /\ NLt(NAbs(NSub(wgs84_to_gcj02(p[1], p[2])[2], p[2])), Half)
        /\ (fn = "roundtrip" /\ phase = "inverse" /\ frame.calls = 0
               /\ ~frame.done) =>
              /\ frame.minLat = NSub(gcj[2], Half)
              /\ frame.maxLat = NAdd(gcj[2], Half)
              /\ frame.minLng = NSub(gcj[1], Half)
              /\ frame.maxLng = NAdd(gcj[1], Half)
              /\ NLt(frame.minLat, arg[2]) /\ NLt(arg[2], frame.maxLat)
              /\ NLt(frame.minLng, arg[1]) /\ NLt(arg[1], frame.maxLng)

\* the search entered for the image of an interior point that the forward
\* transform has moved on both axes
C21_Witness ==
    /\ fn = "roundtrip"
    /\ phase = "inverse"
    /\ frame.calls = 0
    /\ ~frame.done
    /\ gcj[1] # arg[1]
    /\ gcj[2] # arg[2]
    /\ gcj = wgs84_to_gcj02(arg[1], arg[2])

C14_DivisorsPositive ==
    LET Evaluated ==
            {p \in {arg} : fn = "roundtrip"}
              \cup {p \in {<<frame.midLng, frame.midLat>>} :
                      phase = "inverse" /\ frame.calls >= 1}
    IN  \A p \in Evaluated :
            ~outOfChina(p[1], p[2]) =>
                LET magic == Magic(sin(RadLat(p[2])))
                    sqrtMagic == SqrtMagic(magic)
                IN  /\ magic > 0
                    /\ magic <= One
                    /\ sqrtMagic > 0
                    /\ MulShift(magic, sqrtMagic, 29) > 0
                    /\ cos(RadLat(p[2])) > 0
                    /\ DenLat(magic, sqrtMagic) > 0
                    /\ DenLng(sqrtMagic, cos(RadLat(p[2]))) > 0

\* the forward transform evaluated on the upper edge of the latitudes,
\* where cos(radLat) is smallest
C14_Witness ==
    /\ fn = "roundtrip"
    /\ arg[2] = BoxMaxLat
    /\ ~outOfChina(arg[1], arg[2])
    /\ phase = "forwarded"
    /\ gcj # arg

\* C16: after each evaluation of the forward transform on the midpoint, the
\* search has returned that midpoint, without narrowing and without a
\* further pass, exactly when the residual is below 1e-7 in absolute value
\* on both axes; with one axis at or above 1e-7 it narrows and goes on.
\* (A residual is k / 2^30 degree: it is below 1e-7 up to k = 107, and
\* 108 / 2^30 > 1e-7.)
C16_ReturnWhenBothWithin ==
    (phase = "inverse" /\ frame.calls >= 1) =>
        LET tmp == wgs84_to_gcj02(frame.midLng, frame.midLat)
            Within(d) == NAbs(d)[1] = 0 /\ NAbs(d)[2] <= 107
            both == Within(NSub(tmp[2], frame.lat))
                      /\ Within(NSub(tmp[1], frame.lng))
        IN  /\ both =>
                  /\ frame.done
                  /\ frame.ret = <<frame.midLng, frame.midLat>>
                  /\ frame.i = frame.calls - 1
            /\ ~both =>
                  /\ frame.i = frame.calls
                  /\ (frame.done <=> frame.i = MaxIter)

\* the search has returned in the middle of the loop, after passes that did
\* not meet the tolerance
C16_Witness ==
    /\ phase = "inverse"
    /\ frame.done
    /\ frame.calls > 1
    /\ frame.calls < MaxIter
    /\ frame.i = frame.calls - 1
    /\ frame.ret = <<frame.midLng, frame.midLat>>

\* C17: when the search has returned and the residual at its last midpoint
\* is not within the tolerance on both axes, it has made exactly 30 passes
\* and 30 forward evaluations, the box has been halved 30 times (from a
\* width of 1 degree to 2^-30 degree on each axis), and what it returned is
\* the midpoint computed in the 30th pass: the middle of the box as it was
\* before the last narrowing, one of whose halves the box now is.
C17_ThirtiethMidpoint ==
    (phase = "inverse" /\ frame.done /\ frame.calls >= 1) =>
        LET tmp == wgs84_to_gcj02(frame.midLng, frame.midLat)
            Within(d) == NAbs(d)[1] = 0 /\ NAbs(d)[2] <= 107
            both == Within(NSub(tmp[2], frame.lat))
                      /\ Within(NSub(tmp[1], frame.lng))
        IN  ~both =>
              /\ frame.i = 30
              /\ frame.calls = 30
              /\ frame.ret = <<frame.midLng, frame.midLat>>
              /\ NSub(frame.maxLat, frame.minLat) = <<0, 1>>
              /\ NSub(frame.maxLng, frame.minLng) = <<0, 1>>
              /\ frame.midLat \in {frame.minLat, frame.maxLat}
              /\ frame.midLng \in {frame.minLng, frame.maxLng}

\* thirty passes made, the last residual outside the tolerance on the
\* latitude, and the upper bounds narrowed last on both axes
C17_Witness ==
    /\ phase = "inverse"
    /\ frame.done
    /\ frame.i = MaxIter
    /\ frame.calls = 30
    /\ frame.ret = <<frame.maxLng, frame.maxLat>>
    /\ ~BelowThreshold(NSub(wgs84_to_gcj02(frame.midLng, frame.midLat)[2],
                            frame.lat))

\* C18: in every pass that does not return by the tolerance, with dLat and
\* dLng the residuals at the midpoint of the pass: maxLat becomes midLat
\* and minLat stays when dLat > 0, minLat becomes midLat and maxLat stays
\* otherwise (dLat = 0 included); the same for the longitude with dLng,
\* whatever dLat is; so on each axis exactly one bound changes, also on an
\* axis whose residual is already within the tolerance.
C18_NarrowEachAxis ==
    [][(phase = "inverse" /\ frame'.i = frame.i + 1) =>
          LET tmp == wgs84_to_gcj02(frame'.midLng, frame'.midLat)
              dLng == NSub(tmp[1], frame.lng)
              dLat == NSub(tmp[2], frame.lat)
          IN  /\ frame'.midLat = NHalf(NAdd(frame.minLat, frame.maxLat))
              /\ frame'.midLng = NHalf(NAdd(frame.minLng, frame.maxLng))
              /\ IF NGt(dLat, Zero)
                 THEN frame'.maxLat = frame'.midLat /\ frame'.minLat = frame.minLat
                 ELSE frame'.minLat = frame'.midLat /\ frame'.maxLat = frame.maxLat
              /\ IF NGt(dLng, Zero)
                 THEN frame'.maxLng = frame'.midLng /\ frame'.minLng = frame.minLng
                 ELSE frame'.minLng = frame'.midLng /\ frame'.maxLng = frame.maxLng
              /\ (frame'.maxLat # frame.maxLat) # (frame'.minLat # frame.minLat)
              /\ (frame'.maxLng # frame.maxLng) # (frame'.minLng # frame.minLng)
    ]_vars

\* a pass has narrowed the latitude although its residual was within the
\* tolerance, the longitude's being outside, and in opposite directions
C18_Witness ==
    /\ phase = "inverse"
    /\ ~frame.done
    /\ frame.i = frame.calls
    /\ frame.i >= 1
    /\ BelowThreshold(NSub(wgs84_to_gcj02(frame.midLng, frame.midLat)[2],
                           frame.lat))
    /\ ~BelowThreshold(NSub(wgs84_to_gcj02(frame.midLng, frame.midLat)[1],
                            frame.lng))
    /\ frame.midLat \in {frame.minLat, frame.maxLat}
    /\ (frame.midLat = frame.minLat) # (frame.midLng = frame.minLng)

\* C19: in a round trip the argument is a WGS-84 preimage of the target of
\* the search.  Whenever the search box lies inside the box of outOfChina,
\* and the forward transform is increasing on each axis between the
\* midpoint of the pass and the preimage (the latitude it returns, along
\* the meridian of the midpoint; the longitude it returns, along the
\* parallel of the midpoint), the preimage is inside the search box on both
\* axes after the narrowing.
C19_PreimageStaysInBox ==
    (fn = "roundtrip" /\ phase = "inverse" /\ frame.calls >= 1
       /\ frame.i = frame.calls
       /\ ~outOfChina(NSub(frame.lng, <<1, 0>>), NSub(frame.lat, <<1, 0>>))
       /\ ~outOfChina(NAdd(frame.lng, <<1, 0>>), NAdd(frame.lat, <<1, 0>>))) =>
        LET latAt(l) == wgs84_to_gcj02(frame.midLng, l)[2]
            lngAt(g) == wgs84_to_gcj02(g, frame.midLat)[1]
            Increasing ==
                /\ NLt(arg[2], frame.midLat) =>
                        NLt(latAt(arg[2]), latAt(frame.midLat))
                /\ NGt(arg[2], frame.midLat) =>
                        NGt(latAt(arg[2]), latAt(frame.midLat))
                /\ NLt(arg[1], frame.midLng) =>
                        NLt(lngAt(arg[1]), lngAt(frame.midLng))
                /\ NGt(arg[1], frame.midLng) =>
                        NGt(lngAt(arg[1]), lngAt(frame.midLng))
        IN  Increasing =>
              /\ ~NLt(arg[2], frame.minLat)
              /\ ~NGt(arg[2], frame.maxLat)
              /\ ~NLt(arg[1], frame.minLng)
              /\ ~NGt(arg[1], frame.maxLng)

\* C20: on the path main takes through bd09_to_wgs84, bd09_to_gcj02 is
\* applied to the BD-09 pair as given; the search is entered with the pair
\* it returned, longitude first, as its GCJ-02 target; every point handed
\* to the forward transform is the midpoint of the pass, longitude first,
\* within half a degree of the target on each axis; and what the search
\* decides in the pass (to return the midpoint, or which bound to move) is
\* decided by the difference between that forward image and the target.
C20_DatumFlow ==
    fn = "bd09_to_wgs84" =>
        /\ (phase # "start" => gcj = bd09_to_gcj02(arg[1], arg[2]))
        /\ (phase = "inverse" =>
              /\ frame.lng = gcj[1]
              /\ frame.lat = gcj[2]
              /\ (frame.done /\ frame.calls = 0 => frame.ret = gcj)
              /\ (frame.done /\ frame.calls >= 1 =>
                    frame.ret = <<frame.midLng, frame.midLat>>))
        /\ (phase = "inverse" /\ frame.calls >= 1 =>
              LET tmp == wgs84_to_gcj02(frame.midLng, frame.midLat)
                  dLng == NSub(tmp[1], gcj[1])
                  dLat == NSub(tmp[2], gcj[2])
                  Half == <<0, Q \div 2>>
              IN  /\ ~NGt(NAbs(NSub(frame.midLng, gcj[1])), Half)
                  /\ ~NGt(NAbs(NSub(frame.midLat, gcj[2])), Half)
                  /\ IF frame.i = frame.calls
                     THEN /\ ~(BelowThreshold(dLat) /\ BelowThreshold(dLng))
                          /\ frame.midLat = (IF NGt(dLat, Zero)
                                             THEN frame.maxLat ELSE frame.minLat)
                          /\ frame.midLng = (IF NGt(dLng, Zero)
                                             THEN frame.maxLng ELSE frame.minLng)
                     ELSE /\ BelowThreshold(dLat)
                          /\ BelowThreshold(dLng)
                          /\ frame.done)

\* a BD-09 pair inside the box converted by a search of several passes
C20_Witness ==
    /\ fn = "bd09_to_wgs84"
    /\ phase = "inverse"
    /\ frame.done
    /\ frame.calls >= 2
    /\ frame.calls < MaxIter
    /\ frame.ret # gcj
    /\ gcj # arg
    /\ arg[1] # arg[2]

(***************************************************************************)
(* Properties of main, checked under Spec.  Lines(t) cuts a text after     *)
(* each newline.                                                           *)
(***************************************************************************)
RECURSIVE SplitLines(_, _)
SplitLines(t, cur) ==
    IF t = <<>> THEN (IF cur = <<>> THEN <<>> ELSE <<cur>>)
    ELSE IF Head(t) = "\n"
         THEN <<Append(cur, "\n")>> \o SplitLines(Tail(t), <<>>)
         ELSE SplitLines(Tail(t), Append(cur, Head(t)))

Lines(t) == SplitLines(t, <<>>)

IsNumeric(c) == IsDigit(c) \/ c \in {".", "-"}

\* C5: the output holds one line for each record read so far, the k-th line
\* being the conversion of the k-th record of the input, and when main has
\* returned it holds one line for every record read before the first
\* failed read.
C5_OneLinePerRecordInOrder ==
    LET recs == RecordsFrom(input, 1)
        lines == Lines(cout)
    IN  /\ Len(lines) = Len(parsed)
        /\ Len(lines) <= Len(recs)
        /\ (pc = "done" => Len(lines) = Len(recs))
        /\ \A k \in {n \in 1..Len(lines) : n <= Len(recs)} :
              /\ parsed[k] = [bd_lng |-> recs[k].bd_lng,
                              delimiter |-> recs[k].delimiter,
                              bd_lat |-> recs[k].bd_lat]
              /\ lines[k] = OutputLine(Wgs84Of(recs[k]), recs[k].delimiter)

C5_Witness ==
    /\ pc = "done"
    /\ Len(parsed) >= 2
    /\ parsed[1] # parsed[2]
    /\ Len(Lines(cout)) = Len(parsed)

\* C6: in each output line the first number is the longitude bd09_to_wgs84
\* returns for the record as read, plus 0.0001, and the last number is the
\* latitude it returns, minus 0.0003, each printed with eight decimals.
C6_OffsetOnOutput ==
    LET recs == RecordsFrom(input, 1)
        lines == Lines(cout)
    IN  \A k \in {n \in 1..Len(lines) : n <= Len(recs)} :
            LET w == Wgs84Of(recs[k])
                lngText == Fixed(NAdd(w[1], Dec(0, <<0,0,0,1>>)))
                latText == Fixed(NSub(w[2], Dec(0, <<0,0,0,3>>)))
                line == lines[k]
            IN  /\ Len(line) = Len(lngText) + Len(latText) + 3
                /\ SubSeq(line, 1, Len(lngText)) = lngText
                /\ SubSeq(line, Len(line) - Len(latText), Len(line) - 1) = latText

C6_Witness ==
    /\ Len(parsed) >= 1
    /\ ~outOfChina(parsed[1].bd_lng, parsed[1].bd_lat)
    /\ Len(Lines(cout)) = Len(parsed)

\* C7: each output line holds exactly one space; the character before it is
\* the delimiter read from the record the line belongs to, and the rest of
\* the line, before and after, is the two numbers.
C7_DelimiterEchoed ==
    LET recs == RecordsFrom(input, 1)
        lines == Lines(cout)
    IN  \A k \in {n \in 1..Len(lines) : n <= Len(recs)} :
            LET line == lines[k]
                sp == {j \in 1..Len(line) : line[j] = " "}
            IN  /\ Cardinality(sp) = 1
                /\ \A j \in sp :
                      /\ j > 2
                      /\ j + 1 < Len(line)
                      /\ line[j - 1] = recs[k].delimiter
                      /\ \A m \in 1..(j - 2) : IsNumeric(line[m])
                      /\ \A m \in (j + 1)..(Len(line) - 1) : IsNumeric(line[m])

C7_Witness ==
    /\ pc = "done"
    /\ Len(parsed) >= 2
    /\ parsed[1].delimiter # parsed[2].delimiter
    /\ Len(Lines(cout)) = Len(parsed)

\* C8: when the input is empty or does not start with a number, nothing is
\* ever written, the only step main can take is to leave the loop, and it
\* returns 0.
C8_NothingToRead ==
    (input = <<>> \/ ~ExtractDouble(input, 1).ok) =>
        /\ cout = <<>>
        /\ cerr = <<>>
        /\ (pc = "loop" => ENABLED MainBreak /\ ~ENABLED MainConvert)
        /\ (pc = "done" => returned = <<0>>)

C8_Witness ==
    /\ input # <<>>
    /\ ~ExtractDouble(input, 1).ok
    /\ pc = "done"

\* C9: once main has left the loop it has returned 0 and written nothing to
\* the error stream, the output holds exactly the lines of the records
\* before the first failed read, the read at the position reached fails,
\* and no further step is possible; until then main has not returned.
C9_StopsAtFirstFailure ==
    /\ (pc = "loop" => returned = <<>>)
    /\ cerr = <<>>
    /\ (pc = "done" =>
          /\ returned = <<0>>
          /\ Len(Lines(cout)) = Len(RecordsFrom(input, 1))
          /\ ~ReadRecord(input, pos).ok
          /\ ~ENABLED Next)

C9_Witness ==
    /\ pc = "done"
    /\ Len(parsed) >= 1
    /\ Len(Lines(cout)) = Len(parsed)
    /\ \E p \in (pos + 1)..Len(input) : ReadRecord(input, p).ok

\* C12: the line printed for a record is a function of the longitude, the
\* delimiter and the latitude read for that record alone, whatever was read
\* and printed before it; so the same record has the same line at every
\* position of every run.
C12_LineOfRecordAlone ==
    LET lines == Lines(cout)
        LineOf(rec) == OutputLine(Wgs84Of(rec), rec.delimiter)
    IN  /\ \A k \in {n \in 1..Len(lines) : n <= Len(parsed)} :
              lines[k] = LineOf(parsed[k])
        /\ \A j, k \in {n \in 1..Len(lines) : n <= Len(parsed)} :
              parsed[j] = parsed[k] => lines[j] = lines[k]

\* the same record read first and third, after a different one
C12_Witness ==
    /\ Len(parsed) = 3
    /\ Len(Lines(cout)) = 3
    /\ parsed[1] = parsed[3]
    /\ parsed[2].delimiter # parsed[1].delimiter
    /\ parsed[2].bd_lng # parsed[1].bd_lng

(***************************************************************************)
(* The shape of a record as a text: a line that is a number, one character *)
(* and a number.  IsPlainNumber(t) holds of an optional sign, digits, an   *)
(* optional point and digits, with at least one digit; NumberValue(t) is   *)
(* the value t denotes; ShapedRecords(line, D) is the set of records       *)
(* [bd_lng, delimiter, bd_lat] that line spells with a delimiter from D.   *)
(***************************************************************************)
IsPlainNumber(t) ==
    LET body == IF t # <<>> /\ Head(t) \in {"+", "-"} THEN Tail(t) ELSE t
        points == {j \in 1..Len(body) : body[j] = "."}
    IN  /\ Cardinality(points) <= 1
        /\ Len(body) > Cardinality(points)
        /\ \A j \in (1..Len(body)) \ points : IsDigit(body[j])

NumberValue(t) ==
    LET neg == Head(t) = "-"
        body == IF Head(t) \in {"+", "-"} THEN Tail(t) ELSE t
        points == {j \in 1..Len(body) : body[j] = "."}
        pt == IF points = {} THEN Len(body) + 1 ELSE CHOOSE j \in points : TRUE
        v == Dec(IntOf(DigitsOf(body, 1, pt), 0),
                 IF pt < Len(body) THEN DigitsOf(body, pt + 1, Len(body) + 1)
                 ELSE <<>>)
    IN  IF neg THEN NNeg(v) ELSE v

ShapedRecords(line, D) ==
    {[bd_lng |-> NumberValue(SubSeq(line, 1, j - 1)),
      delimiter |-> line[j],
      bd_lat |-> NumberValue(SubSeq(line, j + 1, Len(line) - 1))] :
        j \in {i \in 2..(Len(line) - 2) :
                 /\ line[Len(line)] = "\n"
                 /\ line[i] \in D
                 /\ IsPlainNumber(SubSeq(line, 1, i - 1))
                 /\ IsPlainNumber(SubSeq(line, i + 1, Len(line) - 1))}}

\* the characters of the streams
Chars == UNION {{l[j] : j \in 1..Len(l)} : l \in InputLines}

\* C13, as stated: when the input starts with k lines that each are a
\* number, one character that is not numeric, and a number, the k-th read
\* succeeds and gives the longitude, the delimiter and the latitude that
\* the k-th line spells.
C13_AnyNonNumericDelimiter ==
    LET lines == Lines(input)
        D == {c \in Chars : ~IsNumeric(c) /\ c # "\n"}
    IN  \A k \in 1..Len(lines) :
            (\A j \in 1..k : ShapedRecords(lines[j], D) # {}) =>
                /\ (pc = "done" => Len(parsed) >= k)
                /\ \A n \in {k} \cap (1..Len(parsed)) :
                      parsed[n] \in ShapedRecords(lines[k], D)

\* C13, amended: the same, for a delimiter that in addition is not white
\* space and not the letter e or E.
C13_DelimiterRead ==
    LET lines == Lines(input)
        D == {c \in Chars : ~IsNumeric(c) /\ ~IsSpace(c) /\ c \notin {"e", "E"}}
    IN  \A k \in 1..Len(lines) :
            (\A j \in 1..k : ShapedRecords(lines[j], D) # {}) =>
                /\ (pc = "done" => Len(parsed) >= k)
                /\ \A n \in {k} \cap (1..Len(parsed)) :
                      parsed[n] \in ShapedRecords(lines[k], D)

\* two records of the shape, with different delimiters, both read
C13_Witness ==
    /\ pc = "done"
    /\ Len(parsed) = 2
    /\ Len(Lines(input)) = 2
    /\ parsed[1].delimiter = ","
    /\ parsed[2].delimiter = ";"
    /\ \A k \in 1..2 : parsed[k] \in ShapedRecords(Lines(input)[k], {",", ";"})

\* the record that the line 116.404,39.915 spells
Tiananmen ==
    [bd_lng |-> Dec(116, <<4,0,4>>), delimiter |-> ",",
     bd_lat |-> Dec(39, <<9,1,5>>)]

\* C15, as stated: the line printed for the record 116.404,39.915 holds a
\* longitude within 0.00001 of 116.39122933 + 0.0001 = 116.39132933 and a
\* latitude within 0.00001 of 39.90757938 - 0.0003 = 39.90727938, each with
\* eight decimals.
C15_LiteralExample ==
    LET lines == Lines(cout)
        Near(a, b) == NAbs(NSub(a, b))[1] = 0
                        /\ NAbs(NSub(a, b))[2] <= Q \div 10^5
    IN  \A k \in {n \in 1..Len(lines) : n <= Len(parsed)} :
            parsed[k] = Tiananmen =>
                LET line == lines[k]
                    j == CHOOSE i \in 1..Len(line) : line[i] = ","
                    lngText == SubSeq(line, 1, j - 1)
                    latText == SubSeq(line, j + 2, Len(line) - 1)
                IN  /\ Len(lngText) = 4 + Precision
                    /\ Len(latText) = 3 + Precision
                    /\ Near(NumberValue(lngText), Dec(116, <<3,9,1,3,2,9,3,3>>))
                    /\ Near(NumberValue(latText), Dec(39, <<9,0,7,2,7,9,3,8>>))

\* C15, amended: the line printed for the record 116.404,39.915 is
\* 116.39140214, 39.90719013 (116.39130214 + 0.0001 and 39.90749013 -
\* 0.0003, with eight decimals).
C15_LineOfExample ==
    LET lines == Lines(cout)
    IN  \A k \in {n \in 1..Len(lines) : n <= Len(parsed)} :
            parsed[k] = Tiananmen =>
                lines[k] = <<"1", "1", "6", ".", "3", "9", "1", "4", "0", "2",
                             "1", "4", ",", " ", "3", "9", ".", "9", "0", "7",
                             "1", "9", "0", "1", "3", "\n">>

\* the input is the one line 116.404,39.915 and main has returned
C15_Witness ==
    /\ input = <<"1", "1", "6", ".", "4", "0", "4", ",",
                 "3", "9", ".", "9", "1", "5", "\n">>
    /\ pc = "done"
    /\ parsed = <<Tiananmen>>
    /\ Len(Lines(cout)) = 1

(***************************************************************************)
(* The service worker, public/sw.js.  A URL is named by a number: n >= 1   *)
(* is the tile n of the tile host, 0 is a tile.json of the tile host, -1   *)
(* is a font of the tile host and -2 is a tile path on another host.  The  *)
(* tile cache is the list of the URLs it holds, oldest first, as           *)
(* cache.keys() lists them.  It outlives the worker, so a worker starts on *)
(* an empty cache or on one that earlier runs filled to just below, or to, *)
(* MAX_TILE_ENTRIES.                                                       *)
(***************************************************************************)
MAX_TILE_ENTRIES == 160

TILE_HOST_SUFFIX ==
    <<"a", "p", "i", ".", "m", "a", "p", "t", "i", "l", "e", "r", ".", "c", "o", "m">>

endsWith(s, t) ==
    Len(t) <= Len(s) /\ SubSeq(s, Len(s) - Len(t) + 1, Len(s)) = t

includes(s, t) ==
    \E k \in 1..(Len(s) - Len(t) + 1) : SubSeq(s, k, k + Len(t) - 1) = t

UrlOf(n) ==
    IF n >= 1
    THEN [hostname |-> TILE_HOST_SUFFIX,
          pathname |-> <<"/", "t", "i", "l", "e", "s", "/">> \o IntDigits(n)]
    ELSE IF n = 0
    THEN [hostname |-> TILE_HOST_SUFFIX,
          pathname |-> <<"/", "m", "a", "p", "s", "/", "t", "i", "l", "e", ".", "j", "s", "o", "n">>]
    ELSE IF n = -1
    THEN [hostname |-> TILE_HOST_SUFFIX,
          pathname |-> <<"/", "f", "o", "n", "t", "s", "/", "a", ".", "p", "b", "f">>]
    ELSE [hostname |-> <<"t", "i", "l", "e", ".", "o", "s", "m", ".", "o", "r", "g">>,
          pathname |-> <<"/", "t", "i", "l", "e", "s", "/", "1">>]

\* lines 30-32
isTileRequest(url) ==
    /\ endsWith(url.hostname, TILE_HOST_SUFFIX)
    /\ \/ includes(url.pathname, <<"/", "t", "i", "l", "e", "s", "/">>)
       \/ endsWith(url.pathname, <<"/", "t", "i", "l", "e", ".", "j", "s", "o", "n">>)

\* the number of fetch events of a run; the handler of the k-th is k
MaxFetches == 2

Handlers == 1..MaxFetches

\* the requests the page makes
Requests ==
    {[method |-> "GET", url |-> n] :
        n \in {-2, -1, 0, 1, MAX_TILE_ENTRIES + 1, MAX_TILE_ENTRIES + 2}}
      \cup {[method |-> "POST", url |-> 1]}

StoredAtStart == {0, MAX_TILE_ENTRIES - 1, MAX_TILE_ENTRIES}

IdleHandler ==
    [pc |-> "idle", request |-> [method |-> "GET", url |-> 0],
     cached |-> FALSE, outcome |-> "none", response |-> "none"]

NoTrim == [pc |-> "none", keys |-> <<>>, index |-> 0, removeCount |-> 0]

InitSw ==
    /\ NoMain
    /\ NoCall
    /\ NoApp
    /\ NoMap
    /\ NoFav
    /\ \E n \in StoredAtStart : cache = [k \in 1..n |-> k]
    /\ handlers = [h \in Handlers |-> IdleHandler]
    /\ puts = [h \in Handlers |-> "none"]
    /\ trims = [h \in Handlers |-> NoTrim]

\* cache.delete(key)
CacheDelete(c, key) == SelectSeq(c, LAMBDA k : k # key)

\* cache.put(request, response): the entry of the request is replaced
CachePut(c, key) == Append(CacheDelete(c, key), key)

\* lines 25-36: the listener runs for a fetch event; it leaves a request
\* that is not a GET of a tile to the browser
SwFetchEvent ==
    \E h \in Handlers, request \in Requests :
        /\ handlers[h].pc = "idle"
        /\ \A g \in 1..(h - 1) : handlers[g].pc # "idle"
        /\ handlers' =
             [handlers EXCEPT ![h] =
                [IdleHandler EXCEPT
                   !.request = request,
                   !.pc = IF request.method # "GET" THEN "passed"
                          ELSE IF ~isTileRequest(UrlOf(request.url)) THEN "passed"
                          ELSE "match"]]
        /\ UNCHANGED <<cache, puts, trims, notSw>>

\* lines 37-40 and 49-54: cache.match resolves; the network fetch starts and
\* a cached response settles the answer at once
SwMatched ==
    \E h \in Handlers :
        /\ handlers[h].pc = "match"
        /\ LET cached == \E k \in 1..Len(cache) : cache[k] = handlers[h].request.url
           IN  handlers' =
                 [handlers EXCEPT ![h].pc = "fetch",
                                  ![h].cached = cached,
                                  ![h].response = IF cached THEN "cached" ELSE "none"]
        /\ UNCHANGED <<cache, puts, trims, notSw>>

\* variant: a response is stored whatever its status
SwFetchFulfilled_any_status ==
    \E h \in Handlers, ok \in BOOLEAN :
        /\ handlers[h].pc = "fetch"
        /\ handlers' =
             [handlers EXCEPT
                ![h].pc = "done",
                ![h].outcome = IF ok THEN "ok" ELSE "not_ok",
                ![h].response = IF handlers[h].cached THEN "cached"
                                ELSE IF ok THEN "network_ok" ELSE "network_not_ok"]
        /\ puts' = [puts EXCEPT ![h] = "pending"]
        /\ trims' = [trims EXCEPT ![h].pc = "keys"]
        /\ UNCHANGED <<cache, notSw>>

\* lines 41-47 and 56: the network fetch is fulfilled; for an ok response
\* cache.put is started and trimTileCache is called, neither is awaited
SwFetchFulfilled ==
    \E h \in Handlers, ok \in BOOLEAN :
        /\ handlers[h].pc = "fetch"
        /\ handlers' =
             [handlers EXCEPT
                ![h].pc = "done",
                ![h].outcome = IF ok THEN "ok" ELSE "not_ok",
                ![h].response = IF handlers[h].cached THEN "cached"
                                ELSE IF ok THEN "network_ok" ELSE "network_not_ok"]
        /\ puts' = [puts EXCEPT ![h] = IF ok THEN "pending" ELSE "none"]
        /\ trims' = [trims EXCEPT ![h].pc = IF ok THEN "keys" ELSE "none"]
        /\ UNCHANGED <<cache, notSw>>

\* lines 51 and 56: the network fetch rejects
SwFetchRejected ==
    \E h \in Handlers :
        /\ handlers[h].pc = "fetch"
        /\ handlers' =
             [handlers EXCEPT
                ![h].pc = "done",
                ![h].outcome = "rejected",
                ![h].response = IF handlers[h].cached THEN "cached" ELSE "error"]
        /\ UNCHANGED <<cache, puts, trims, notSw>>

\* line 43: the cache.put settles; a failure is swallowed
SwPutSettled ==
    \E h \in Handlers, stored \in BOOLEAN :
        /\ puts[h] = "pending"
        /\ puts' = [puts EXCEPT ![h] = "none"]
        /\ cache' = IF stored THEN CachePut(cache, handlers[h].request.url) ELSE cache
        /\ UNCHANGED <<handlers, trims, notSw>>

\* lines 62-64: cache.keys() resolves
SwTrimKeys ==
    \E h \in Handlers :
        /\ trims[h].pc = "keys"
        /\ trims' =
             [trims EXCEPT ![h] =
                IF Len(cache) <= MAX_TILE_ENTRIES THEN NoTrim
                ELSE [pc |-> "delete", keys |-> cache, index |-> 0,
                      removeCount |-> Len(cache) - MAX_TILE_ENTRIES]]
        /\ UNCHANGED <<cache, handlers, puts, notSw>>

\* lines 65-68: one cache.delete resolves
SwTrimDelete ==
    \E h \in Handlers :
        /\ trims[h].pc = "delete"
        /\ cache' = CacheDelete(cache, trims[h].keys[trims[h].index + 1])
        /\ trims' =
             [trims EXCEPT ![h] =
                IF trims[h].index + 1 < trims[h].removeCount
                THEN [trims[h] EXCEPT !.index = trims[h].index + 1]
                ELSE NoTrim]
        /\ UNCHANGED <<handlers, puts, notSw>>

NextSw ==
    \/ SwFetchEvent
    \/ SwMatched
    \/ SwFetchFulfilled
    \/ SwFetchRejected
    \/ SwPutSettled
    \/ SwTrimKeys
    \/ SwTrimDelete

SpecSw == InitSw /\ [][NextSw]_vars

(***************************************************************************)
(* Properties of the service worker, checked under SpecSw.                 *)
(***************************************************************************)
SwQuiet ==
    \A h \in Handlers :
        /\ handlers[h].pc \in {"idle", "done", "passed"}
        /\ puts[h] = "none"
        /\ trims[h].pc = "none"

\* C23: whenever no fetch handler, no cache.put and no trimTileCache call
\* is pending, the tile cache holds at most MAX_TILE_ENTRIES entries.
C23_CacheBoundWhenQuiet ==
    SwQuiet => Len(cache) <= MAX_TILE_ENTRIES

\* C24: a GET of a tile is answered with the cached response when the cache
\* holds the request, whatever becomes of the network fetch; otherwise with
\* the network response, or with Response.error() when the fetch rejects.
\* A cache.put is started for ok responses only.  A request that is not a
\* GET, or not for a tile, is never answered.
C24_ResponseRule ==
    \A h \in Handlers :
        LET r == handlers[h]
            tile == r.request.method = "GET" /\ r.request.url >= 0
        IN  /\ (r.pc # "idle" /\ ~tile) => (r.pc = "passed" /\ r.response = "none")
            /\ (r.pc # "idle" /\ tile) => r.pc \in {"match", "fetch", "done"}
            /\ (r.pc \in {"fetch", "done"} /\ r.cached) => r.response = "cached"
            /\ (r.pc = "fetch" /\ ~r.cached) => r.response = "none"
            /\ (r.pc = "done" /\ ~r.cached) =>
                  r.response = (CASE r.outcome = "ok" -> "network_ok"
                                  [] r.outcome = "not_ok" -> "network_not_ok"
                                  [] r.outcome = "rejected" -> "error")
            /\ puts[h] = "pending" => (r.pc = "done" /\ r.outcome = "ok")

\* a cached tile answered from the cache while its refetch rejected, next
\* to a tile that was not cached and whose fetch came back not ok
C24_Witness ==
    \E h, g \in Handlers :
        /\ handlers[h].pc = "done"
        /\ handlers[h].cached
        /\ handlers[h].outcome = "rejected"
        /\ handlers[h].response = "cached"
        /\ handlers[g].pc = "done"
        /\ ~handlers[g].cached
        /\ handlers[g].outcome = "not_ok"
        /\ handlers[g].response = "network_not_ok"

(***************************************************************************)
(* The panels and the search box of App, src/App.tsx.  app holds the state *)
(* of the component and the requestAnimationFrame callbacks it has asked   *)
(* for.  A handler is a function of the state of the render it was made    *)
(* in; a step is a handler followed by the effects of the next render.     *)
(***************************************************************************)
\* what the user may type
Terms == {"", "a", "ab"}

\* where a mousedown may land
Targets == {"map", "search", "location_panel", "location_button", "elsewhere"}

\* lines 60-67
AppMounted ==
    [searchTerm |-> "", activeQuery |-> "",
     searchOpen |-> FALSE, infoOpen |-> FALSE, locationPanelOpen |-> FALSE,
     cityListOpen |-> FALSE, regionListOpen |-> FALSE,
     frames |-> {}]

InitApp ==
    /\ NoMain
    /\ NoCall
    /\ NoSw
    /\ NoMap
    /\ NoFav
    /\ app = AppMounted

\* lines 140-144
closeLocationPanel(a) ==
    [a EXCEPT !.locationPanelOpen = FALSE,
              !.cityListOpen = FALSE,
              !.regionListOpen = FALSE]

\* variant: the info panel is left as it is
openSearch_keeps_info(a) ==
    LET b == closeLocationPanel(a)
    IN  IF ~b.searchOpen
        THEN [b EXCEPT !.activeQuery = a.searchTerm, !.searchOpen = TRUE]
        ELSE b

\* lines 146-156
openSearch(a) ==
    LET b == closeLocationPanel([a EXCEPT !.infoOpen = FALSE])
    IN  IF ~b.searchOpen
        THEN [b EXCEPT !.activeQuery = a.searchTerm, !.searchOpen = TRUE]
        ELSE b

\* variant: the query in force is kept
closeSearch_keeps_query(a) ==
    [a EXCEPT !.searchOpen = FALSE]

\* lines 158-161
closeSearch(a) ==
    [a EXCEPT !.searchOpen = FALSE, !.activeQuery = ""]

\* lines 179-187
handleSearchInputChange(a, value) ==
    IF a.searchOpen
    THEN [a EXCEPT !.searchTerm = value, !.activeQuery = value]
    ELSE [a EXCEPT !.searchTerm = value]

\* lines 189-199: the callback asked for focuses the popover input when the
\* search was open in the render of the handler, the toolbar input if not
clearSearch(a) ==
    [a EXCEPT !.searchTerm = "",
              !.activeQuery = "",
              !.frames = @ \cup {IF a.searchOpen THEN "clear_open"
                                 ELSE "clear_closed"}]

\* lines 304-309 and 330-347: the effects of a render that follows state b
\* with state a
Rendered(b, a) ==
    LET c == IF ~a.locationPanelOpen
             THEN [a EXCEPT !.cityListOpen = FALSE, !.regionListOpen = FALSE]
             ELSE a
    IN  IF c.searchOpen /\ ~b.searchOpen
        THEN [c EXCEPT !.frames = @ \cup {"focusTarget"}]
        ELSE c

\* lines 432-438 and 450: a click in the search box or the focus of its
\* input
AppSearchFocus ==
    /\ app' = Rendered(app, openSearch(app))
    /\ UNCHANGED notApp

\* lines 451 and 478: the user edits the text; the toolbar input is read
\* only while the search is closed (line 454)
AppSearchInput ==
    \E value \in Terms :
        /\ app.searchOpen
        /\ value # app.searchTerm
        /\ app' = Rendered(app, handleSearchInputChange(app, value))
        /\ UNCHANGED notApp

\* lines 456-468 and 482-491: the clear button, shown while there is text
AppClearClick ==
    /\ app.searchTerm # ""
    /\ app' = Rendered(app, clearSearch(app))
    /\ UNCHANGED notApp

\* lines 201-207 and 571-578: a suggestion or the collapse button
AppCollapseClick ==
    /\ app.searchOpen
    /\ app' = Rendered(app, closeSearch(app))
    /\ UNCHANGED notApp

\* lines 599-611
AppLocationButtonClick ==
    /\ app' =
         Rendered(app,
            IF app.locationPanelOpen
            THEN closeLocationPanel(app)
            ELSE LET a1 == [app EXCEPT !.infoOpen = FALSE]
                     a2 == IF app.searchOpen THEN closeSearch(a1) ELSE a1
                 IN  [a2 EXCEPT !.locationPanelOpen = TRUE,
                                !.cityListOpen = FALSE,
                                !.regionListOpen = FALSE])
    /\ UNCHANGED notApp

\* lines 631-640 and 668-677: the headers of the city list and of the
\* region list, in the location panel
AppListToggle ==
    \E list \in {"city", "region"} :
        /\ app.locationPanelOpen
        /\ app' =
             Rendered(app,
                IF list = "city"
                THEN [app EXCEPT !.cityListOpen = ~app.cityListOpen,
                                 !.regionListOpen =
                                     IF ~app.cityListOpen THEN FALSE ELSE @]
                ELSE [app EXCEPT !.regionListOpen = ~app.regionListOpen,
                                 !.cityListOpen =
                                     IF ~app.regionListOpen THEN FALSE ELSE @])
        /\ UNCHANGED notApp

\* lines 749-755
AppInfoButtonClick ==
    /\ app' =
         Rendered(app,
            LET a1 == closeLocationPanel([app EXCEPT !.infoOpen = ~app.infoOpen])
            IN  IF app.searchOpen THEN closeSearch(a1) ELSE a1)
    /\ UNCHANGED notApp

\* lines 257-263 and 287-294: a mousedown reaches the listeners that the
\* open panels have registered
AppMouseDown ==
    \E target \in Targets :
        /\ target = "location_panel" => app.locationPanelOpen
        /\ app.locationPanelOpen \/ app.searchOpen
        /\ app' =
             Rendered(app,
                LET a1 == IF /\ app.locationPanelOpen
                             /\ target \notin {"location_panel", "location_button"}
                          THEN closeLocationPanel(app)
                          ELSE app
                IN  IF app.searchOpen /\ target \notin {"map", "search"}
                    THEN closeSearch(a1)
                    ELSE a1)
        /\ UNCHANGED notApp

\* lines 265-270 and 283-285: the Escape key
AppEscape ==
    /\ app.locationPanelOpen \/ app.searchOpen
    /\ app' =
         Rendered(app,
            LET a1 == IF app.locationPanelOpen THEN closeLocationPanel(app)
                      ELSE app
            IN  IF app.searchOpen THEN closeSearch(a1) ELSE a1)
    /\ UNCHANGED notApp

\* lines 192-198 and 337-346: a callback of requestAnimationFrame runs.  It
\* focuses the popover input, which has no focus handler and exists only
\* while the search is open, or the toolbar input, whose focus handler is
\* openSearch; focusTarget picks by the width of the window.
AppAnimationFrame ==
    \E callback \in app.frames, narrow \in BOOLEAN :
        LET a1 == [app EXCEPT !.frames = @ \ {callback}]
            toolbar ==
                CASE callback = "focusTarget" -> ~narrow
                  [] callback = "clear_open" -> ~app.searchOpen
                  [] callback = "clear_closed" -> TRUE
        IN  /\ app' = Rendered(app, IF toolbar THEN openSearch(a1) ELSE a1)
            /\ UNCHANGED notApp

NextApp ==
    \/ AppSearchFocus
    \/ AppSearchInput
    \/ AppClearClick
    \/ AppCollapseClick
    \/ AppLocationButtonClick
    \/ AppListToggle
    \/ AppInfoButtonClick
    \/ AppMouseDown
    \/ AppEscape
    \/ AppAnimationFrame

SpecApp == InitApp /\ [][NextApp]_vars

(***************************************************************************)
(* Properties of App, checked under SpecApp.                               *)
(***************************************************************************)
\* C25: at most one of the search popover, the info panel and the location
\* panel is open.
C25_OnePanelOpen ==
    /\ ~(app.searchOpen /\ app.infoOpen)
    /\ ~(app.searchOpen /\ app.locationPanelOpen)
    /\ ~(app.infoOpen /\ app.locationPanelOpen)

\* the info panel open alone, after a search in which a text was typed
C25_Witness ==
    /\ app.infoOpen
    /\ ~app.searchOpen
    /\ ~app.locationPanelOpen
    /\ app.searchTerm = "ab"

\* C26: while the search is closed the query in force is empty, and while
\* it is open the query in force is the text of the search box.
C26_QueryFollowsSearch ==
    /\ ~app.searchOpen => app.activeQuery = ""
    /\ app.searchOpen => app.activeQuery = app.searchTerm

\* the search closed with a typed text left in the box
C26_Witness ==
    /\ ~app.searchOpen
    /\ app.searchTerm = "ab"
    /\ app.activeQuery = ""

(***************************************************************************)
(* MapView, src/components/MapView.tsx: the map, the tracking of the user  *)
(* location and the loading of the points of interest.  mv holds the props *)
(* and the state of the component, its refs, the watches registered with   *)
(* navigator.geolocation and the data loads in flight.  A step is an event *)
(* followed by the renders it causes, each with the cleanups and the       *)
(* bodies of the effects whose dependencies changed.  CITIES holds one     *)
(* city, so the style URL, which follows the theme, is the only            *)
(* dependency of the map effect and of the load effect that changes.       *)
(***************************************************************************)
Themes == {"light", "dark"}

\* watchPosition calls of a run
MaxWatches == 2

\* data loads of a run
MaxLoads == 3

\* variant: the watch id is dropped and the watch is left registered
stopUserLocationTracking_no_clearWatch(m, notify) ==
    LET m2 == [m EXCEPT !.watchId = 0,
                        !.marker = FALSE, !.centered = FALSE, !.active = FALSE]
    IN  IF notify THEN [m2 EXCEPT !.trackUserLocation = FALSE] ELSE m2

\* lines 83-105
stopUserLocationTracking(m, notify) ==
    LET m1 == IF m.watchId # 0
              THEN [m EXCEPT !.watches = @ \ {m.watchId}, !.watchId = 0]
              ELSE m
        m2 == [m1 EXCEPT !.marker = FALSE, !.centered = FALSE, !.active = FALSE]
    IN  IF notify THEN [m2 EXCEPT !.trackUserLocation = FALSE] ELSE m2

\* lines 385-395: the cleanup of the map effect
MapCleanup(m) ==
    [stopUserLocationTracking(m, FALSE) EXCEPT
        !.map = FALSE, !.idle = {}, !.layers = 0, !.mapReady = FALSE]

\* lines 306-322: the body of the map effect
MapBody(m) ==
    [m EXCEPT !.mapReady = FALSE, !.map = TRUE]

\* lines 398-459: the body of the tracking effect, in a render with state r
TrackingBody(m, r, throws) ==
    IF ~r.trackUserLocation
    THEN [stopUserLocationTracking(m, TRUE) EXCEPT !.hasCleanup = FALSE]
    ELSE IF ~r.mapReady \/ ~m.map
    THEN [m EXCEPT !.hasCleanup = FALSE]
    ELSE IF throws
    THEN [stopUserLocationTracking(m, TRUE) EXCEPT !.hasCleanup = TRUE]
    ELSE [m EXCEPT !.watchId = m.registered + 1,
                   !.watches = @ \cup {m.registered + 1},
                   !.registered = @ + 1,
                   !.hasCleanup = TRUE]

\* lines 476-507: the cleanup and the body of the load effect
LoadCleanup(m) ==
    [m EXCEPT !.loads[Len(m.loads)].cancelled = TRUE]

LoadBody(m) ==
    [m EXCEPT !.loads = Append(@, [stage |-> "fetch", cancelled |-> FALSE])]

\* one render of state r: the cleanups of the effects whose dependencies
\* changed, in the order of the effects, then their bodies
Render(r, throws) ==
    LET style == r.theme # r.effTheme
        track == r.trackUserLocation # r.effTrack \/ r.mapReady # r.effReady
        c1 == IF style THEN MapCleanup(r) ELSE r
        c2 == IF track /\ r.hasCleanup
              THEN stopUserLocationTracking(c1, FALSE) ELSE c1
        c3 == IF style THEN LoadCleanup(c2) ELSE c2
        b1 == IF style THEN MapBody(c3) ELSE c3
        b2 == IF track THEN TrackingBody(b1, r, throws) ELSE b1
        b3 == IF style THEN LoadBody(b2) ELSE b2
    IN  [b3 EXCEPT !.effTheme = r.theme,
                   !.effTrack = r.trackUserLocation,
                   !.effReady = r.mapReady]

\* the renders that follow an event, until no state is left to render
RECURSIVE Commit(_, _)
Commit(m, throws) ==
    IF /\ m.theme = m.effTheme
       /\ m.trackUserLocation = m.effTrack
       /\ m.mapReady = m.effReady
    THEN m
    ELSE Commit(Render(m, throws), throws)

\* lines 70-81 and the first run of the effects
MapMounted(theme) ==
    [mounted |-> TRUE, theme |-> theme, trackUserLocation |-> FALSE,
     map |-> TRUE, mapReady |-> FALSE,
     watchId |-> 0, watches |-> {}, registered |-> 0,
     marker |-> FALSE, centered |-> FALSE, active |-> FALSE,
     hasCleanup |-> FALSE,
     rawData |-> 0, layers |-> 0, idle |-> {},
     loads |-> <<[stage |-> "fetch", cancelled |-> FALSE]>>,
     effTheme |-> theme, effTrack |-> FALSE, effReady |-> FALSE]

InitMap ==
    /\ NoMain
    /\ NoCall
    /\ NoSw
    /\ NoApp
    /\ NoFav
    /\ \E theme \in Themes : mv = MapMounted(theme)

\* App.tsx lines 163-169: the location button
MvToggleUserLocation ==
    \E throws \in BOOLEAN :
        /\ mv.mounted
        /\ mv.trackUserLocation \/ mv.registered < MaxWatches
        /\ mv' = Commit([mv EXCEPT !.trackUserLocation = ~@], throws)
        /\ UNCHANGED notMap

\* App.tsx lines 136-138: the theme button; the style URL follows the theme
MvToggleTheme ==
    \E throws \in BOOLEAN :
        /\ mv.mounted
        /\ Len(mv.loads) < MaxLoads
        /\ mv' = Commit([mv EXCEPT !.theme = IF @ = "light" THEN "dark" ELSE "light"],
                        throws)
        /\ UNCHANGED notMap

\* line 321: the map has loaded
MvMapLoad ==
    \E throws \in BOOLEAN :
        /\ mv.mounted
        /\ mv.map
        /\ ~mv.mapReady
        /\ ~mv.trackUserLocation \/ mv.registered < MaxWatches
        /\ mv' = Commit([mv EXCEPT !.mapReady = TRUE], throws)
        /\ UNCHANGED notMap

\* lines 416-442: a position arrives for the registered watch
MvPosition ==
    /\ mv.watches # {}
    /\ mv' =
         Commit(IF ~mv.map THEN mv
                ELSE [mv EXCEPT !.marker = TRUE,
                                !.centered = TRUE,
                                !.active = TRUE,
                                !.trackUserLocation = IF ~mv.active THEN TRUE ELSE @],
                FALSE)
    /\ UNCHANGED notMap

\* lines 443-447: the registered watch reports an error
MvPositionError ==
    /\ mv.watches # {}
    /\ mv' = Commit(stopUserLocationTracking(mv, TRUE), FALSE)
    /\ UNCHANGED notMap

\* lines 483-484 and 497-499: the fetch of a load settles
MvLoadFetched ==
    \E l \in 1..Len(mv.loads), ok \in BOOLEAN :
        /\ mv.loads[l].stage = "fetch"
        /\ mv' = [mv EXCEPT !.loads[l].stage = IF ok THEN "json" ELSE "failed"]
        /\ UNCHANGED notMap

\* variant: the data of a cancelled load is used like any other
MvLoadParsed_unchecked ==
    \E l \in 1..Len(mv.loads), isStyleLoaded \in BOOLEAN :
        /\ mv.loads[l].stage = "json"
        /\ mv' =
             LET m1 == [mv EXCEPT !.loads[l].stage = "applied", !.rawData = l]
             IN  IF ~m1.map THEN m1
                 ELSE IF isStyleLoaded THEN [m1 EXCEPT !.layers = l]
                 ELSE [m1 EXCEPT !.idle = @ \cup {l}]
        /\ UNCHANGED notMap

\* lines 485-496: the body of a response has been read
MvLoadParsed ==
    \E l \in 1..Len(mv.loads), isStyleLoaded \in BOOLEAN :
        /\ mv.loads[l].stage = "json"
        /\ mv' =
             IF mv.loads[l].cancelled
             THEN [mv EXCEPT !.loads[l].stage = "discarded"]
             ELSE LET m1 == [mv EXCEPT !.loads[l].stage = "applied", !.rawData = l]
                  IN  IF ~m1.map THEN m1
                      ELSE IF isStyleLoaded THEN [m1 EXCEPT !.layers = l]
                      ELSE [m1 EXCEPT !.idle = @ \cup {l}]
        /\ UNCHANGED notMap

\* line 495: the map becomes idle and runs the rebuild that waited for it
MvMapIdle ==
    \E l \in mv.idle :
        /\ mv.map
        /\ mv' = [mv EXCEPT !.layers = l, !.idle = @ \ {l}]
        /\ UNCHANGED notMap

\* the component goes away: the cleanups of lines 385-395, 457-459 and
\* 504-506
MvUnmount ==
    /\ mv.mounted
    /\ mv' =
         LET c1 == MapCleanup(mv)
             c2 == IF mv.hasCleanup THEN stopUserLocationTracking(c1, FALSE) ELSE c1
         IN  [LoadCleanup(c2) EXCEPT !.mounted = FALSE, !.hasCleanup = FALSE]
    /\ UNCHANGED notMap

NextMap ==
    \/ MvToggleUserLocation
    \/ MvToggleTheme
    \/ MvMapLoad
    \/ MvPosition
    \/ MvPositionError
    \/ MvLoadFetched
    \/ MvLoadParsed
    \/ MvMapIdle
    \/ MvUnmount

SpecMap == InitMap /\ [][NextMap]_vars

(***************************************************************************)
(* Properties of MapView, checked under SpecMap.                           *)
(***************************************************************************)
\* C27: at most one watch is registered with navigator.geolocation, and it
\* is the one the component holds the id of; none is registered once the
\* component is gone; while tracking is off the watch id and the marker of
\* the user are null; and an error of the watch leaves tracking off in the
\* parent.
C27_OneWatch ==
    /\ [](/\ Cardinality(mv.watches) <= 1
          /\ mv.watches = (IF mv.watchId = 0 THEN {} ELSE {mv.watchId})
          /\ ~mv.mounted => mv.watches = {}
          /\ ~mv.trackUserLocation => (mv.watchId = 0 /\ ~mv.marker))
    /\ [][MvPositionError =>
            /\ ~mv'.trackUserLocation
            /\ mv'.watchId = 0
            /\ ~mv'.marker
            /\ mv'.watches = {}]_vars

\* tracking stopped after a watch had been registered and a second watch
\* registered after that was stopped as well
C27_Witness ==
    /\ mv.mounted
    /\ mv.mapReady
    /\ ~mv.trackUserLocation
    /\ mv.registered = 2
    /\ mv.watchId = 0

\* C28: the response of a load that has been superseded, by a later load
\* or by the end of the component, does not become rawData and is not put
\* in the layers of the map.
C28_StaleLoadDiscarded ==
    [][/\ mv'.rawData # mv.rawData =>
            (mv.mounted /\ mv'.rawData = Len(mv.loads))
       /\ (mv'.layers # mv.layers /\ mv'.layers # 0) =>
            (mv.mounted /\ mv'.layers = Len(mv.loads))]_vars

\* the response of a first load discarded after the second load was applied
C28_Witness ==
    /\ Len(mv.loads) >= 2
    /\ mv.loads[1].stage = "discarded"
    /\ mv.loads[2].stage = "applied"
    /\ mv.rawData = 2
    /\ mv.layers = 2

(***************************************************************************)
(* The favourites, src/utils/favorites.ts, and the share links,            *)
(* src/utils/share.ts.  Texts are sequences of characters.  A JSON value   *)
(* is a record: t is its type, s the characters of a string or the digits  *)
(* of a number, items the elements of an array.  A Set is the sequence of  *)
(* its elements in the order of insertion.  A URL is its query string.     *)
(***************************************************************************)
JV(t, s, items) == [t |-> t, s |-> s, items |-> items]

JNull == JV("null", <<>>, <<>>)

JStr(s) == JV("str", s, <<>>)

JsonFail == [ok |-> FALSE, val |-> JNull, next |-> 0]

RECURSIVE JsonWs(_, _)
JsonWs(s, p) ==
    IF p <= Len(s) /\ s[p] \in {" ", "\t", "\n", "\r"} THEN JsonWs(s, p + 1) ELSE p

\* the characters of a string, from after its opening quote
RECURSIVE JsonStringBody(_, _, _)
JsonStringBody(s, p, acc) ==
    IF p > Len(s) THEN JsonFail
    ELSE IF s[p] = "\"" THEN [ok |-> TRUE, val |-> JStr(acc), next |-> p + 1]
    ELSE IF s[p] = "\\"
    THEN IF p + 1 <= Len(s) /\ s[p + 1] \in {"\"", "\\", "/"}
         THEN JsonStringBody(s, p + 2, Append(acc, s[p + 1]))
         ELSE JsonFail
    ELSE IF s[p] \in {"\t", "\n", "\r"} THEN JsonFail
    ELSE JsonStringBody(s, p + 1, Append(acc, s[p]))

RECURSIVE JsonDigitsEnd(_, _)
JsonDigitsEnd(s, p) ==
    IF p <= Len(s) /\ IsDigit(s[p]) THEN JsonDigitsEnd(s, p + 1) ELSE p

\* a number: digits, with no zero in front of another digit
JsonNumber(s, p) ==
    LET e == JsonDigitsEnd(s, p)
    IN  IF s[p] = "0" /\ e > p + 1 THEN JsonFail
        ELSE [ok |-> TRUE, val |-> JV("num", SubSeq(s, p, e - 1), <<>>), next |-> e]

RECURSIVE JsonValue(_, _), JsonElements(_, _, _)
JsonValue(s, p0) ==
    LET p == JsonWs(s, p0)
    IN  IF p > Len(s) THEN JsonFail
        ELSE IF s[p] = "\"" THEN JsonStringBody(s, p + 1, <<>>)
        ELSE IF IsDigit(s[p]) THEN JsonNumber(s, p)
        ELSE IF s[p] = "n"
        THEN IF p + 3 <= Len(s) /\ SubSeq(s, p, p + 3) = <<"n", "u", "l", "l">>
             THEN [ok |-> TRUE, val |-> JNull, next |-> p + 4]
             ELSE JsonFail
        ELSE IF s[p] = "{"
        THEN LET q == JsonWs(s, p + 1)
             IN  IF q <= Len(s) /\ s[q] = "}"
                 THEN [ok |-> TRUE, val |-> JV("obj", <<>>, <<>>), next |-> q + 1]
                 ELSE JsonFail
        ELSE IF s[p] = "["
        THEN LET q == JsonWs(s, p + 1)
             IN  IF q <= Len(s) /\ s[q] = "]"
                 THEN [ok |-> TRUE, val |-> JV("arr", <<>>, <<>>), next |-> q + 1]
                 ELSE JsonElements(s, q, <<>>)
        ELSE JsonFail

\* the elements of an array, from its first element
JsonElements(s, p, acc) ==
    LET v == JsonValue(s, p)
        q == JsonWs(s, v.next)
    IN  IF ~v.ok \/ q > Len(s) THEN JsonFail
        ELSE IF s[q] = "]"
        THEN [ok |-> TRUE, val |-> JV("arr", <<>>, Append(acc, v.val)), next |-> q + 1]
        ELSE IF s[q] = ","
        THEN JsonElements(s, q + 1, Append(acc, v.val))
        ELSE JsonFail

\* JSON.parse: ok is false where it throws
JSON_parse(text) ==
    LET v == JsonValue(text, 1)
    IN  IF v.ok /\ JsonWs(text, v.next) = Len(text) + 1
        THEN [ok |-> TRUE, val |-> v.val]
        ELSE [ok |-> FALSE, val |-> JNull]

RECURSIVE JsonEscape(_)
JsonEscape(s) ==
    IF s = <<>> THEN <<>>
    ELSE (IF Head(s) \in {"\"", "\\"} THEN <<"\\", Head(s)>> ELSE <<Head(s)>>)
           \o JsonEscape(Tail(s))

\* JSON.stringify of a value and of the elements of an array
RECURSIVE JSON_stringify(_), JsonJoin(_)
JSON_stringify(v) ==
    CASE v.t = "str" -> <<"\"">> \o JsonEscape(v.s) \o <<"\"">>
      [] v.t = "num" -> v.s
      [] v.t = "null" -> <<"n", "u", "l", "l">>
      [] v.t = "obj" -> <<"{", "}">>
      [] v.t = "arr" -> <<"[">> \o JsonJoin(v.items) \o <<"]">>

JsonJoin(items) ==
    IF items = <<>> THEN <<>>
    ELSE IF Len(items) = 1 THEN JSON_stringify(items[1])
    ELSE JSON_stringify(items[1]) \o <<",">> \o JsonJoin(Tail(items))

\* Set.prototype.has: arrays and objects are equal to themselves only
SetHas(set, v) ==
    /\ v.t \in {"str", "num", "null"}
    /\ \E k \in 1..Len(set) : set[k] = v

RECURSIVE SetFrom(_, _)
SetFrom(set, items) ==
    IF items = <<>> THEN set
    ELSE SetFrom(IF SetHas(set, Head(items)) THEN set ELSE Append(set, Head(items)),
                 Tail(items))

\* new Set(value): ok is false where it throws, for a value that cannot be
\* iterated
NewSet(v) ==
    CASE v.t = "arr" -> [ok |-> TRUE, set |-> SetFrom(<<>>, v.items)]
      [] v.t = "str" ->
            [ok |-> TRUE, set |-> SetFrom(<<>>, [k \in 1..Len(v.s) |-> JStr(<<v.s[k]>>)])]
      [] v.t = "null" -> [ok |-> TRUE, set |-> <<>>]
      [] OTHER -> [ok |-> FALSE, set |-> <<>>]

\* localStorage.getItem(KEY) of a storage that holds no item
NoItem == [present |-> FALSE, text |-> <<>>]

Item(text) == [present |-> TRUE, text |-> text]

\* lines 2-5
getFavs(stored) ==
    LET json == JSON_parse(IF stored.present /\ stored.text # <<>>
                           THEN stored.text ELSE <<"[", "]">>)
    IN  IF json.ok /\ NewSet(json.val).ok THEN NewSet(json.val).set ELSE <<>>

\* variant: the id is added whether the set holds it or not
toggleFav_add_only(stored, id) ==
    LET s == getFavs(stored)
        t == IF SetHas(s, JStr(id)) THEN s ELSE Append(s, JStr(id))
    IN  [stored |-> Item(JSON_stringify(JV("arr", <<>>, t))), set |-> t]

\* lines 6-15: the item stored and the set returned
toggleFav(stored, id) ==
    LET s == getFavs(stored)
        t == IF SetHas(s, JStr(id))
             THEN SelectSeq(s, LAMBDA v : v # JStr(id))
             ELSE Append(s, JStr(id))
    IN  [stored |-> Item(JSON_stringify(JV("arr", <<>>, t))), set |-> t]

\* lines 16-18
setFavs(ids) ==
    Item(JSON_stringify(JV("arr", <<>>, [k \in 1..Len(ids) |-> JStr(ids[k])])))

\* String.prototype.split on one character
RECURSIVE Split(_, _, _)
Split(s, sep, piece) ==
    IF s = <<>> THEN <<piece>>
    ELSE IF Head(s) = sep THEN <<piece>> \o Split(Tail(s), sep, <<>>)
    ELSE Split(Tail(s), sep, Append(piece, Head(s)))

\* Array.prototype.join of texts
RECURSIVE Join(_, _)
Join(pieces, sep) ==
    IF pieces = <<>> THEN <<>>
    ELSE IF Len(pieces) = 1 THEN pieces[1]
    ELSE pieces[1] \o <<sep>> \o Join(Tail(pieces), sep)

\* the characters that the serializer of URLSearchParams leaves as they are
UrlPlain ==
    {"a", "b", "c", "d", "e", "f", "g", "h", "i", "j", "k", "l", "m", "n", "o",
     "p", "q", "r", "s", "t", "u", "v", "w", "x", "y", "z",
     "0", "1", "2", "3", "4", "5", "6", "7", "8", "9", "*", "-", ".", "_"}

\* the other characters of the texts at hand and their percent codes
UrlCodes ==
    { <<",", <<"%", "2", "C">> >>, <<"&", <<"%", "2", "6">> >>,
      <<"=", <<"%", "3", "D">> >>, <<"%", <<"%", "2", "5">> >>,
      <<"+", <<"%", "2", "B">> >>, <<"\"", <<"%", "2", "2">> >>,
      <<"[", <<"%", "5", "B">> >>, <<"]", <<"%", "5", "D">> >> }

RECURSIVE UrlEncode(_)
UrlEncode(s) ==
    IF s = <<>> THEN <<>>
    ELSE (IF Head(s) \in UrlPlain THEN <<Head(s)>>
          ELSE IF Head(s) = " " THEN <<"+">>
          ELSE (CHOOSE c \in UrlCodes : c[1] = Head(s))[2])
           \o UrlEncode(Tail(s))

RECURSIVE UrlDecode(_)
UrlDecode(s) ==
    IF s = <<>> THEN <<>>
    ELSE IF Head(s) = "+" THEN <<" ">> \o UrlDecode(Tail(s))
    ELSE IF /\ Head(s) = "%"
            /\ Len(s) >= 3
            /\ \E c \in UrlCodes : c[2] = SubSeq(s, 1, 3)
    THEN <<(CHOOSE c \in UrlCodes : c[2] = SubSeq(s, 1, 3))[1]>>
           \o UrlDecode(SubSeq(s, 4, Len(s)))
    ELSE <<Head(s)>> \o UrlDecode(Tail(s))

\* the name and the value of one piece of a query string
QueryPair(piece) ==
    LET parts == Split(piece, "=", <<>>)
    IN  <<UrlDecode(parts[1]), UrlDecode(Join(Tail(parts), "="))>>

\* new URL(location.href).searchParams, from the query string
SearchParams(query) ==
    LET pieces == SelectSeq(Split(query, "&", <<>>), LAMBDA piece : piece # <<>>)
    IN  [k \in 1..Len(pieces) |-> QueryPair(pieces[k])]

\* URLSearchParams.get: the value of the first pair of that name
SearchParamsGet(params, name) ==
    LET found == SelectSeq(params, LAMBDA pair : pair[1] = name)
    IN  IF found = <<>> THEN NoItem ELSE Item(found[1][2])

SearchParamsDelete(params, name) ==
    SelectSeq(params, LAMBDA pair : pair[1] # name)

\* URLSearchParams.set: the first pair of that name takes the value and
\* the others go; a new pair is added at the end
SearchParamsSet(params, name, value) ==
    IF \E k \in 1..Len(params) : params[k][1] = name
    THEN LET first == CHOOSE k \in 1..Len(params) :
                         /\ params[k][1] = name
                         /\ \A j \in 1..(k - 1) : params[j][1] # name
         IN  SubSeq(params, 1, first - 1) \o << <<name, value>> >>
               \o SearchParamsDelete(SubSeq(params, first + 1, Len(params)), name)
    ELSE Append(params, <<name, value>>)

\* URL.prototype.toString, for the query string
SerializeQuery(params) ==
    Join([k \in 1..Len(params) |->
             UrlEncode(params[k][1]) \o <<"=">> \o UrlEncode(params[k][2])], "&")

NameCity == <<"c", "i", "t", "y">>

NameRegion == <<"r", "e", "g", "i", "o", "n">>

NameFav == <<"f", "a", "v">>

\* share.ts lines 1-11; regionId is empty for null
buildShareUrl(location, citySlug, regionId, favIds) ==
    LET u1 == SearchParamsSet(SearchParams(location), NameCity, citySlug)
        u2 == IF regionId # <<>> THEN SearchParamsSet(u1, NameRegion, regionId)
              ELSE SearchParamsDelete(u1, NameRegion)
    IN  SerializeQuery(SearchParamsSet(u2, NameFav, Join(favIds, ",")))

\* share.ts lines 12-15
parseFavFromUrl(location) ==
    LET val == SearchParamsGet(SearchParams(location), NameFav)
    IN  IF val.present /\ val.text # <<>>
        THEN SelectSeq(Split(val.text, ",", <<>>), LAMBDA id : id # <<>>)
        ELSE <<>>

\* String(value) of an element of the set, as Array.prototype.join takes it
TextOf(v) == IF v.t \in {"str", "num"} THEN v.s ELSE <<>>

\* the ids of the points of interest
PoiIds == {<<"a">>, <<"b">>}

\* what localStorage may hold under KEY when the app is opened
StoredAtOpen ==
    {NoItem} \cup
    {Item(text) : text \in
        { <<>>,
          <<"[", "]">>,
          <<"[", "\"", "a", "\"", "]">>,
          <<"[", "\"", "b", "\"", ",", " ", "\"", "a", "\"", "]">>,
          <<"[", "\"", "a", "\"", ",", "\"", "a", "\"", "]">>,
          <<"[", "\"", "a", ",", "b", "\"", "]">>,
          <<"[", "\"", "\"", "]">>,
          <<"[", "1", "]">>,
          <<"[", "\"", "&", "=", "%", "+", " ", "\\", "\"", "\"", "]">>,
          <<"n", "u", "l", "l">>,
          <<"5">>,
          <<"\"", "a", "b", "\"">>,
          <<"{", "}">>,
          <<"[", "\"", "a", "\"">>,
          <<"a", "b">> }}

\* the query strings the app may be opened with
QueriesAtOpen ==
    { <<>>,
      <<"f", "a", "v", "=">>,
      <<"f", "a", "v", "=", "a">>,
      <<"f", "a", "v", "=", "b", "%", "2", "C", "a">>,
      <<"f", "a", "v", "=", "a", ",", ",", "b">>,
      <<"f", "a", "v", "=", ",">>,
      <<"r", "e", "g", "i", "o", "n", "=", "q", "&", "f", "a", "v", "=", "b", "&", "f", "a", "v", "=", "a">> }

InitFav ==
    /\ NoMain
    /\ NoCall
    /\ NoSw
    /\ NoApp
    /\ NoMap
    /\ storage \in StoredAtOpen
    /\ href \in QueriesAtOpen
    /\ favMounted = FALSE
    /\ favSet = <<>>
    /\ nextFavs = <<>>
    /\ clipboard = NoItem

\* variant: the ids of the URL are added to the stored ones
FavOpen_merges ==
    /\ ~favMounted
    /\ favMounted' = TRUE
    /\ LET favFromUrl == parseFavFromUrl(href)
           merged == SetFrom(getFavs(storage),
                             [k \in 1..Len(favFromUrl) |-> JStr(favFromUrl[k])])
       IN  IF Len(favFromUrl) > 0
           THEN /\ storage' = Item(JSON_stringify(JV("arr", <<>>, merged)))
                /\ favSet' = merged
           ELSE /\ storage' = storage
                /\ favSet' = getFavs(storage)
    /\ UNCHANGED <<href, nextFavs, clipboard, notFav>>

\* MapView.tsx lines 71 and 113-121: the app is opened
FavOpen ==
    /\ ~favMounted
    /\ favMounted' = TRUE
    /\ LET favFromUrl == parseFavFromUrl(href)
       IN  IF Len(favFromUrl) > 0
           THEN /\ storage' = setFavs(favFromUrl)
                /\ favSet' = SetFrom(<<>>, [k \in 1..Len(favFromUrl) |-> JStr(favFromUrl[k])])
           ELSE /\ storage' = storage
                /\ favSet' = getFavs(storage)
    /\ UNCHANGED <<href, nextFavs, clipboard, notFav>>

\* MapView.tsx lines 292-300: the button of a popup
FavToggle ==
    \E id \in PoiIds :
        /\ favMounted
        /\ storage' = toggleFav(storage, id).stored
        /\ nextFavs' = toggleFav(storage, id).set
        /\ favSet' = SetFrom(<<>>, toggleFav(storage, id).set)
        /\ UNCHANGED <<href, favMounted, clipboard, notFav>>

\* MapView.tsx line 615 and App.tsx lines 127-131: the share link is copied
FavShare ==
    \E regionId \in {<<>>, <<"q">>} :
        /\ favMounted
        /\ clipboard' =
             Item(buildShareUrl(href, <<"f", "u", "z", "h", "o", "u">>, regionId,
                                [k \in 1..Len(favSet) |-> TextOf(favSet[k])]))
        /\ clipboard' # clipboard
        /\ UNCHANGED <<storage, href, favMounted, favSet, nextFavs, notFav>>

\* the copied link is followed: the page is loaded anew
FavFollowLink ==
    /\ clipboard.present
    /\ href' = clipboard.text
    /\ favMounted' = FALSE
    /\ favSet' = <<>>
    /\ nextFavs' = <<>>
    /\ UNCHANGED <<storage, clipboard, notFav>>

NextFav ==
    \/ FavOpen
    \/ FavToggle
    \/ FavShare
    \/ FavFollowLink

SpecFav == InitFav /\ [][NextFav]_vars

(***************************************************************************)
(* Properties of the favourites and of the share links, checked under      *)
(* SpecFav.                                                                *)
(***************************************************************************)
\* the elements of a Set
Members(set) == {set[k] : k \in 1..Len(set)}

\* C29: toggleFav(id) returns the stored favourites with id added when it
\* was absent and taken out when it was present, every other element as it
\* was; what it stores reads back as the set it returns; a second
\* toggleFav(id) brings back the first set; and getFavs is empty for a
\* missing item and for a text that is not JSON.
C29_ToggleFav ==
    /\ [](\A id \in PoiIds :
            LET before == Members(getFavs(storage))
                once == toggleFav(storage, id)
                twice == toggleFav(once.stored, id)
            IN  /\ Members(once.set) =
                      (IF JStr(id) \in before THEN before \ {JStr(id)}
                       ELSE before \cup {JStr(id)})
                /\ Members(getFavs(once.stored)) = Members(once.set)
                /\ Members(twice.set) = before
                /\ Members(getFavs(twice.stored)) = before)
    /\ []((~storage.present \/ ~JSON_parse(storage.text).ok) => getFavs(storage) = <<>>)
    /\ [][FavToggle => Members(getFavs(storage')) = Members(nextFavs')]_vars

\* a toggle has taken the last id out of the item that held a alone
C29_Witness ==
    /\ favMounted
    /\ favSet = <<>>
    /\ nextFavs = <<>>
    /\ storage = Item(<<"[", "]">>)
    /\ href = <<"f", "a", "v", "=", "a">>

\* the ids of a Set of strings, none empty and none with a comma
Shareable(set) ==
    \A k \in 1..Len(set) :
        /\ set[k].t = "str"
        /\ set[k].s # <<>>
        /\ \A j \in 1..Len(set[k].s) : set[k].s[j] # ","

\* C30, as stated: opening the app with a fav parameter that is not empty
\* stores exactly the ids of the URL, opening it with no fav parameter or
\* an empty one leaves the stored item as it is, and a share link reads
\* back as the ids it was built from when none is empty or holds a comma.
C30_NonEmptyParameterReplaces ==
    /\ [][FavOpen =>
            LET val == SearchParamsGet(SearchParams(href), NameFav)
            IN  IF val.present /\ val.text # <<>>
                THEN Members(getFavs(storage')) =
                       {JStr(id) : id \in Members(parseFavFromUrl(href))}
                ELSE storage' = storage]_vars
    /\ []((clipboard.present /\ favMounted /\ Shareable(favSet)) =>
            \A regionId \in {<<>>, <<"q">>} :
                parseFavFromUrl(buildShareUrl(href, <<"f", "u", "z", "h", "o", "u">>,
                                              regionId,
                                              [k \in 1..Len(favSet) |-> favSet[k].s]))
                  = [k \in 1..Len(favSet) |-> favSet[k].s])

\* C30, amended: opening the app with a fav parameter that names at least
\* one id that is not empty stores exactly the ids of the URL; opening it
\* with no fav parameter, an empty one or one made of commas only leaves
\* the stored item as it is; and a share link reads back as the ids it was
\* built from when none is empty or holds a comma.
C30_NamedIdsReplace ==
    /\ [][FavOpen =>
            LET val == SearchParamsGet(SearchParams(href), NameFav)
                named == val.present /\ \E k \in 1..Len(val.text) : val.text[k] # ","
            IN  IF named
                THEN Members(getFavs(storage')) =
                       {JStr(id) : id \in Members(parseFavFromUrl(href))}
                ELSE storage' = storage]_vars
    /\ []((clipboard.present /\ favMounted /\ Shareable(favSet)) =>
            \A regionId \in {<<>>, <<"q">>} :
                parseFavFromUrl(buildShareUrl(href, <<"f", "u", "z", "h", "o", "u">>,
                                              regionId,
                                              [k \in 1..Len(favSet) |-> favSet[k].s]))
                  = [k \in 1..Len(favSet) |-> favSet[k].s])

\* the app opened on a followed share link of two ids, which it stored
C30_Witness ==
    /\ favMounted
    /\ clipboard.present
    /\ href = clipboard.text
    /\ parseFavFromUrl(href) = <<<<"b">>, <<"a">>>>
    /\ storage = setFavs(<<<<"b">>, <<"a">>>>)
    /\ favSet = <<JStr(<<"b">>), JStr(<<"a">>)>>

=============================================================================
